---- MODULE Spec2Model ----
(***************************************************************************)
(* Archive discovery and incremental harvest engine of tisza-scraper.      *)
(*                                                                         *)
(* The state machines of this module, one specification each:              *)
(*   SpecBatches  daterange_batches (backfill_domain_batches.py)           *)
(*   SpecRepo     Repository.upsert / get_or_fetch_article, fed by the     *)
(*                meta-only Article of RegexArchiveAdapter._yield_matches  *)
(*   SpecListing  crawl_archivum (multi_archive_crawler_index.py,          *)
(*                444_archive_crawler.py)                                  *)
(*   SpecStreak   the empty-streak loop of crawl_archivum in the index,    *)
(*                telexfix and hvg crawlers, over page outcomes            *)
(*   SpecModes    the --mode dispatch of the crawlers' main and the phase  *)
(*                sequence of RegexArchiveAdapter.iter_archive             *)
(*   SpecYm       RegexArchiveAdapter._iter_ym_urls                        *)
(*   SpecYmd      RegexArchiveAdapter._iter_ymd_urls                       *)
(*   SpecAdList   the listing phase of RegexArchiveAdapter.iter_archive    *)
(*   SpecExtract  the link extractors and the acceptance of their links    *)
(*   SpecFetch    Fetcher.get_text                                         *)
(*   SpecPolite   the network steps of one orchestrated window             *)
(*   SpecStores   master and batch store under discovery, fill and copy    *)
(*   SpecRuns     runs of backfill_domain_batches.py one after the other   *)
(*   SpecScenario iter_archive and Pipeline.collect on a dated listing     *)
(*   SpecCanon    the URL canonicalizer                                    *)
(*   SpecLookup   Repository.get_article_row_by_url                        *)
(*   Spec         backfill_domain_batches.main over RegexArchiveAdapter,   *)
(*                Pipeline.collect and Repository                          *)
(* Dates are day ordinals, 1 being 2024-01-29; isoformat strings of dates  *)
(* compare as the ordinals do.                                             *)
(***************************************************************************)
EXTENDS Integers, Sequences, FiniteSets, TLC

VARIABLES
    \* daterange_batches
    b_start, b_end, b_step, b_cur, b_out, b_pc,
    \* Repository (articles table), the last call made on it and how often
    \* that call invoked the content-fetch collaborator
    r_store, r_op, r_art, r_raised, r_twice, r_nbefore, r_fetches,
    \* crawl_archivum: the site, the arguments, the loop state
    l_site, l_tail, l_start, l_end, l_allow, l_maxp,
    l_page, l_streak, l_found, l_seen, l_fetched, l_errors, l_pc,
    \* backfill_domain_batches.main: arguments, loop position, persisted
    \* stores and reports, the adapter's generator state, the fill queue
    o_pc, o_resume, o_force, o_stop, o_windows, o_w,
    o_store, o_batch, o_reports, o_stats,
    o_plan, o_page_i, o_seen, o_queue,
    \* bookkeeping of the run: whether the step just taken fetched, the
    \* outcome of the latest attempt per window, whether a step of the
    \* current attempt raised, the windows skipped in this run, the last
    \* discovery upsert, the URLs ever upserted from a listing page
    o_tick, o_last, o_failed, o_skipped, o_up, o_listed,
    \* the listing scenario: how each article's link is spelled, how much
    \* of the listing has been served, the adapter's loop state, the store
    s_spell, s_next, s_oldp, s_page_i, s_stopped, s_seen, s_store, s_total, s_pc,
    \* the canonicalizer applied to two URLs, and once more to the first
    \* result
    c_in, c_alt, c_out, c_alt_out, c_twice, c_pc,
    \* lookup by URL: the table, the URL asked for, the rows
    \* get_article_row_by_url returned, the table before content-fill
    k_store, k_url, k_rows, k_before, k_pc,
    \* main of the crawlers (mode dispatch): which crawler, --mode, the
    \* templates configured, whether both ends of the range exist, the
    \* position, the accumulated result list, the strategies that fetched
    m_impl, m_mode, m_tmpl, m_range, m_pc, m_found, m_ran,
    \* the empty-streak loop of crawl_archivum over page outcomes: which
    \* crawler, whether date_from is given, --max-archivum-pages, the loop
    \* variables, and of the pages so far whether in-window links were seen
    \* and how many fetched pages in a row contributed none
    t_impl, t_start, t_maxp, t_page, t_streak, t_inrange, t_seen, t_quiet,
    t_pc,
    \* _iter_ym_urls as a generator: the range, the templates configured, the
    \* per-month page cap, the URLs still to come, the URLs yielded
    y_start, y_end, y_tmpl, y_paged, y_maxp, y_plan, y_out, y_pc,
    \* RegexArchiveAdapter._iter_ymd_urls: range, templates, page cap, max_days,
    \* URLs still to yield, URLs requested, position
    d_start, d_end, d_tmpl, d_paged, d_maxp, d_maxd, d_plan, d_out, d_pc,
    \* network steps of one orchestrated window: phase, listing pages still to
    \* request, rows still to fill, the last network step, fetches issued
    p_pc, p_pages, p_rows, p_prev, p_fetches,
    \* the link extractor on one page: implementation, the page's links in
    \* document order, allow-missing-date, the extracted pairs, the accepted
    \* URLs, position
    x_impl, x_page, x_allow, x_out, x_acc, x_pc,
    \* Fetcher.get_text: max_retries, request attempts made, attempts that
    \* raised, the response, the value returned, position
    f_max, f_attempts, f_raises, f_resp, f_ret, f_pc,
    \* the listing phase of RegexArchiveAdapter.iter_archive: date_from, the
    \* page cap, page URLs still to come, the pages fetched, URLs yielded, position
    a_start, a_maxp, a_plan, a_log, a_seen, a_pc,
    \* runs of backfill_domain_batches.py one after the other: the day of the
    \* run, --resume, --force, its windows and position in them, the report
    \* files, the reports that said success / were unreadable when the run
    \* started, the windows the run skipped / ran, the first run's windows
    w_today, w_resume, w_force, w_windows, w_i, w_reports, w_prev, w_bad, w_skipped, w_ran, w_first, w_pc,
    \* the master store and a batch store under discovery, content fill and
    \* window copy; the last operation
    v_store, v_batch, v_op

batchVars == <<b_start, b_end, b_step, b_cur, b_out, b_pc>>

repoVars == <<r_store, r_op, r_art, r_raised, r_twice, r_nbefore,
              r_fetches>>

listVars == <<l_site, l_tail, l_start, l_end, l_allow, l_maxp,
              l_page, l_streak, l_found, l_seen, l_fetched, l_errors, l_pc>>

orchVars == <<o_pc, o_resume, o_force, o_stop, o_windows, o_w,
              o_store, o_batch, o_reports, o_stats,
              o_plan, o_page_i, o_seen, o_queue,
              o_tick, o_last, o_failed, o_skipped, o_up, o_listed>>

scenVars == <<s_spell, s_next, s_oldp, s_page_i, s_stopped, s_seen, s_store,
              s_total, s_pc>>

canonVars == <<c_in, c_alt, c_out, c_alt_out, c_twice, c_pc>>

lookupVars == <<k_store, k_url, k_rows, k_before, k_pc>>

modesVars == <<m_impl, m_mode, m_tmpl, m_range, m_pc, m_found, m_ran>>

streakVars == <<t_impl, t_start, t_maxp, t_page, t_streak, t_inrange, t_seen,
                t_quiet, t_pc>>

ymVars == <<y_start, y_end, y_tmpl, y_paged, y_maxp, y_plan, y_out, y_pc>>

ymdVars == <<d_start, d_end, d_tmpl, d_paged, d_maxp, d_maxd, d_plan, d_out, d_pc>>

politeVars == <<p_pc, p_pages, p_rows, p_prev, p_fetches>>

extractVars == <<x_impl, x_page, x_allow, x_out, x_acc, x_pc>>

fetchVars == <<f_max, f_attempts, f_raises, f_resp, f_ret, f_pc>>

adListVars == <<a_start, a_maxp, a_plan, a_log, a_seen, a_pc>>

runsVars == <<w_today, w_resume, w_force, w_windows, w_i, w_reports, w_prev, w_bad, w_skipped, w_ran, w_first, w_pc>>

storesVars == <<v_store, v_batch, v_op>>

vars == <<b_start, b_end, b_step, b_cur, b_out, b_pc,
          r_store, r_op, r_art, r_raised, r_twice, r_nbefore, r_fetches,
          l_site, l_tail, l_start, l_end, l_allow, l_maxp,
          l_page, l_streak, l_found, l_seen, l_fetched, l_errors, l_pc,
          o_pc, o_resume, o_force, o_stop, o_windows, o_w,
          o_store, o_batch, o_reports, o_stats,
          o_plan, o_page_i, o_seen, o_queue,
          o_tick, o_last, o_failed, o_skipped, o_up, o_listed,
          s_spell, s_next, s_oldp, s_page_i, s_stopped, s_seen, s_store,
          s_total, s_pc,
          c_in, c_alt, c_out, c_alt_out, c_twice, c_pc,
          k_store, k_url, k_rows, k_before, k_pc,
          m_impl, m_mode, m_tmpl, m_range, m_pc, m_found, m_ran,
          t_impl, t_start, t_maxp, t_page, t_streak, t_inrange, t_seen,
          t_quiet, t_pc,
          y_start, y_end, y_tmpl, y_paged, y_maxp, y_plan, y_out, y_pc,
          d_start, d_end, d_tmpl, d_paged, d_maxp, d_maxd, d_plan, d_out, d_pc,
          p_pc, p_pages, p_rows, p_prev, p_fetches,
          x_impl, x_page, x_allow, x_out, x_acc, x_pc,
          f_max, f_attempts, f_raises, f_resp, f_ret, f_pc,
          a_start, a_maxp, a_plan, a_log, a_seen, a_pc,
          w_today, w_resume, w_force, w_windows, w_i, w_reports, w_prev, w_bad, w_skipped, w_ran, w_first, w_pc,
          v_store, v_batch, v_op>>

\* Python None / SQL NULL
NULL == "NULL"

Min(a, b) == IF a < b THEN a ELSE b

\* what a machine leaves alone: the variables of the other machines
notBatchVars == <<repoVars, listVars, orchVars, scenVars,
                  canonVars, lookupVars, modesVars, streakVars, ymVars, ymdVars, politeVars, extractVars, fetchVars, adListVars, runsVars, storesVars>>
notRepoVars == <<batchVars, listVars, orchVars, scenVars,
                 canonVars, lookupVars, modesVars, streakVars, ymVars, ymdVars, politeVars, extractVars, fetchVars, adListVars, runsVars, storesVars>>
notListVars == <<batchVars, repoVars, orchVars, scenVars,
                 canonVars, lookupVars, modesVars, streakVars, ymVars, ymdVars, politeVars, extractVars, fetchVars, adListVars, runsVars, storesVars>>
notOrchVars == <<batchVars, repoVars, listVars, scenVars,
                 canonVars, lookupVars, modesVars, streakVars, ymVars, ymdVars, politeVars, extractVars, fetchVars, adListVars, runsVars, storesVars>>
notScenVars == <<batchVars, repoVars, listVars, orchVars,
                 canonVars, lookupVars, modesVars, streakVars, ymVars, ymdVars, politeVars, extractVars, fetchVars, adListVars, runsVars, storesVars>>
notCanonVars == <<batchVars, repoVars, listVars, orchVars,
                  scenVars, lookupVars, modesVars, streakVars, ymVars, ymdVars, politeVars, extractVars, fetchVars, adListVars, runsVars, storesVars>>
notLookupVars == <<batchVars, repoVars, listVars, orchVars,
                   scenVars, canonVars, modesVars, streakVars, ymVars, ymdVars, politeVars, extractVars, fetchVars, adListVars, runsVars, storesVars>>
notModesVars == <<batchVars, repoVars, listVars, orchVars,
                  scenVars, canonVars, lookupVars, streakVars, ymVars, ymdVars, politeVars, extractVars, fetchVars, adListVars, runsVars, storesVars>>
notStreakVars == <<batchVars, repoVars, listVars, orchVars,
                   scenVars, canonVars, lookupVars, modesVars, ymVars, ymdVars, politeVars, extractVars, fetchVars, adListVars, runsVars, storesVars>>
notYmVars == <<batchVars, repoVars, listVars, orchVars,
               scenVars, canonVars, lookupVars, modesVars, streakVars, ymdVars, politeVars, extractVars, fetchVars, adListVars, runsVars, storesVars>>
notYmdVars == <<batchVars, repoVars, listVars, orchVars,
                scenVars, canonVars, lookupVars, modesVars, streakVars, ymVars, politeVars, extractVars, fetchVars, adListVars, runsVars, storesVars>>
notPoliteVars == <<batchVars, repoVars, listVars, orchVars,
                   scenVars, canonVars, lookupVars, modesVars, streakVars, ymVars, ymdVars, extractVars, fetchVars, adListVars, runsVars, storesVars>>
notExtractVars == <<batchVars, repoVars, listVars, orchVars,
                    scenVars, canonVars, lookupVars, modesVars, streakVars, ymVars, ymdVars, politeVars, fetchVars, adListVars, runsVars, storesVars>>
notFetchVars == <<batchVars, repoVars, listVars, orchVars,
                  scenVars, canonVars, lookupVars, modesVars, streakVars, ymVars, ymdVars, politeVars, extractVars, adListVars, runsVars, storesVars>>
notAdListVars == <<batchVars, repoVars, listVars, orchVars,
                   scenVars, canonVars, lookupVars, modesVars, streakVars, ymVars, ymdVars, politeVars, extractVars, fetchVars, runsVars, storesVars>>
notRunsVars == <<batchVars, repoVars, listVars, orchVars,
                 scenVars, canonVars, lookupVars, modesVars, streakVars, ymVars, ymdVars, politeVars, extractVars, fetchVars, adListVars, storesVars>>
notStoresVars == <<batchVars, repoVars, listVars, orchVars,
                   scenVars, canonVars, lookupVars, modesVars, streakVars, ymVars, ymdVars, politeVars, extractVars, fetchVars, adListVars, runsVars>>

----------------------------------------------------------------------------
(* URLs, dates and the canonicalizer                                       *)

\* urlparse(u): scheme, netloc, path and query.  A path is a sequence of
\* tokens, each "/" or a segment without a slash, so that two URLs are the
\* same string exactly when their records are equal.
Url(sch, host, path, query) ==
    [scheme |-> sch, netloc |-> host, path |-> path, query |-> query]

NoUrl == Url("", "", <<>>, "")

\* domain of the 444 adapter (factories.make_444_adapter)
Domain == "444.hu"

\* the host as a page may spell it (the article regex is re.IGNORECASE)
Hosts == {"444.hu", "444.HU"}

LowerKeep(h) == h

\* str.lower() on the hosts of the model
Lower(h) == IF h = "444.HU" THEN "444.hu" ELSE h

\* calendar of the model: ordinal d is IsoTable[d]; the same day inside a
\* URL path is PathDateTable[d]
IsoTable == <<"2024-01-29", "2024-01-30", "2024-01-31", "2024-02-01",
              "2024-02-02", "2024-02-03", "2024-02-04", "2024-02-05">>
PathDateTable == <<"2024/01/29", "2024/01/30", "2024/01/31", "2024/02/01",
                   "2024/02/02", "2024/02/03", "2024/02/04", "2024/02/05">>
\* date.month of ordinal d, and the ordinal of date(2024, m, 1)
MonthTable == <<1, 1, 1, 2, 2, 2, 2, 2>>
FirstOfMonth(m) == IF m = 1 THEN 0 - 27 ELSE IF m = 2 THEN 4 ELSE 33

\* a path date the regex matches although it is no calendar day
BadPathDate == "2024/02/31"
BadIso == "2024-02-31"

\* date.isoformat()
IsoFormat(d) == IsoTable[d]

\* None where a date is expected; also the ValueError of date(y, m, d)
NoDate == 0

\* date(y, m, d) of an ISO string
ToOrdinal(iso) ==
    IF \E d \in 1..Len(IsoTable) : IsoTable[d] = iso
    THEN CHOOSE d \in 1..Len(IsoTable) : IsoTable[d] = iso
    ELSE NoDate

\* f"{y:04d}-{mo:02d}-{d:02d}" of the regex groups 1-3 of a matched URL
\* (the date segment is the first segment of the path)
PubOfMatch(u) ==
    LET tok == u.path[2]
    IN IF tok = BadPathDate THEN BadIso
       ELSE IsoTable[CHOOSE d \in 1..Len(PathDateTable) : PathDateTable[d] = tok]

RECURSIVE RStripSlash(_)
\* str.rstrip("/")
RStripSlash(p) ==
    IF p # <<>> /\ p[Len(p)] = "/"
    THEN RStripSlash(SubSeq(p, 1, Len(p) - 1))
    ELSE p

\* RegexArchiveAdapter(force_https=True)
ForceHttps == TRUE

\* RegexArchiveAdapter._canonicalize
Canonicalize(u) ==
    LET scheme == IF ForceHttps THEN "https"
                  ELSE IF u.scheme = "" THEN "https" ELSE u.scheme
        netloc == Lower(u.netloc)
        path0 == IF u.path = <<>> THEN <<"/">> ELSE u.path
        path == IF path0 # <<"/">> /\ path0[Len(path0)] = "/"
                THEN RStripSlash(path0) ELSE path0
    IN [u EXCEPT !.scheme = scheme, !.netloc = netloc, !.path = path]

\* https://444.hu/<date>/<slug>
ArticleUrl(d, slug) == Url("https", Domain, <<"/", PathDateTable[d], "/", slug>>, "")

\* the spellings of an article link a page may carry
RawSpellings(d, slug) ==
    { Url(sch, h, <<"/", PathDateTable[d], "/", slug>> \o tr, "") :
        sch \in {"http", "https"}, h \in Hosts, tr \in {<<>>, <<"/">>} }

\* hashlib.sha256(url.encode("utf-8")).hexdigest(): a function of the URL
\* string, distinct strings giving distinct digests
Sha256(u) == <<"sha256", u>>

----------------------------------------------------------------------------
(* Repository: the articles table                                          *)

\* a row of `articles` (the columns upsert writes)
Row(id, url, source, title, content, published, tags, label) ==
    [id |-> id, url |-> url, source |-> source, title |-> title,
     content |-> content, published_date |-> published,
     matched_tags |-> tags, label |-> label]

\* models.Article
Article(id, title, link, published, source, content, tags, label) ==
    [id |-> id, title |-> title, link |-> link, published |-> published,
     source |-> source, content |-> content, matched_tags |-> tags,
     label |-> label]

NoArt == Article(Sha256(NoUrl), NULL, NoUrl, NULL, NULL, NULL, <<>>, NULL)

CoalesceTake(x, y) == x

\* SQL COALESCE(x, y)
Coalesce(x, y) == IF x # NULL THEN x ELSE y

RECURSIVE JoinComma(_)
\* ",".join(tags)
JoinComma(tags) ==
    IF Len(tags) = 1 THEN tags[1]
    ELSE tags[1] \o "," \o JoinComma(Tail(tags))

IdConflictNever(st, art) == {}

\* the rows ON CONFLICT(id) fires on
IdConflict(st, art) == {r \in st : r.id = art.id}

\* articles.url is UNIQUE: an insert whose url belongs to a row with another
\* id raises sqlite3.IntegrityError
UniqueViolation(st, art) == \E r \in st : r.id # art.id /\ r.url = art.link

\* the DO UPDATE SET clause of Repository.upsert
MergeRow(r, art, published_date, matched_tags) ==
    [r EXCEPT !.title = Coalesce(art.title, r.title),
              !.content = Coalesce(art.content, r.content),
              !.published_date = Coalesce(published_date, r.published_date),
              !.matched_tags = Coalesce(matched_tags, r.matched_tags),
              !.label = Coalesce(art.label, r.label)]

\* Repository.upsert: the new table and whether the call raised
Upsert(st, art) ==
    LET domain == Lower(IF art.source # NULL /\ art.source # ""
                        THEN art.source ELSE art.link.netloc)
        published_date == IF art.published = "" THEN NULL ELSE art.published
        matched_tags == IF art.matched_tags = <<>> THEN NULL
                        ELSE JoinComma(art.matched_tags)
        hit == IdConflict(st, art)
    IN IF hit # {}
       THEN [store |-> (st \ hit) \cup
                       {MergeRow(r, art, published_date, matched_tags) : r \in hit},
             raised |-> FALSE]
       ELSE IF UniqueViolation(st, art)
       THEN [store |-> st, raised |-> TRUE]
       ELSE [store |-> st \cup {Row(art.id, art.link, domain, art.title,
                                    art.content, published_date,
                                    matched_tags, art.label)},
             raised |-> FALSE]

\* Repository.get_article_row_by_url: the rows with exactly this url
RowsByUrl(st, url) == {r \in st : r.url = url}

\* Python truthiness of an Optional[str]
Truthy(v) == v # NULL /\ v # ""

\* the Article RegexArchiveAdapter._yield_matches builds for an accepted link
YieldArticle(url, pub) ==
    Article(Sha256(url), "", url, pub, Domain, NULL, <<>>, NULL)

\* read_article: ("", "") when the fetch is unavailable, else the extracted
\* (title, body), either of which may be empty
FetchFail == <<"unavailable">>
ReadArticle(res) == IF res = FetchFail THEN <<"", "">> ELSE res

\* Repository.update_article_content_by_url
UpdateContentByUrl(st, url, title, content) ==
    {IF r.url = url
     THEN [r EXCEPT !.title = Coalesce(title, r.title),
                    !.content = Coalesce(content, r.content)]
     ELSE r : r \in st}

GetOrFetchAlways(st, url, res) ==
    LET rows == RowsByUrl(st, url)
        tb == ReadArticle(res)
    IN IF rows = {}
       THEN LET art == Article(Sha256(url), tb[1], url, NULL,
                               url.netloc, tb[2], <<>>, NULL)
                u == Upsert(st, art)
            IN [store |-> u.store, fetched |-> TRUE, raised |-> u.raised]
       ELSE [store |-> UpdateContentByUrl(st, url, tb[1], tb[2]),
             fetched |-> TRUE, raised |-> FALSE]

\* Repository.get_or_fetch_article: the new table, whether the collaborator
\* was called, and whether the call raised
GetOrFetch(st, url, res) ==
    LET rows == RowsByUrl(st, url)
    IN IF rows # {} /\ \E r \in rows : Truthy(r.content)
       THEN [store |-> st, fetched |-> FALSE, raised |-> FALSE]
       ELSE LET tb == ReadArticle(res)
            IN IF rows = {}
               THEN LET art == Article(Sha256(url), tb[1], url, NULL,
                                       url.netloc, tb[2], <<>>, NULL)
                        u == Upsert(st, art)
                    IN [store |-> u.store, fetched |-> TRUE, raised |-> u.raised]
               ELSE [store |-> UpdateContentByUrl(st, url, tb[1], tb[2]),
                     fetched |-> TRUE, raised |-> FALSE]

\* the variables of a machine while another machine runs
RepoIdle ==
    /\ r_store = {} /\ r_op = "idle" /\ r_art = NoArt /\ r_raised = FALSE
    /\ r_twice = FALSE /\ r_nbefore = 0 /\ r_fetches = 0

BatchIdle ==
    /\ b_start = 0 /\ b_end = 0 /\ b_step = 1
    /\ b_cur = 0 /\ b_out = <<>> /\ b_pc = "idle"

ListIdle ==
    /\ l_site = <<>> /\ l_tail = [ok |-> FALSE, links |-> <<>>, rel |-> <<>>] /\ l_start = 0 /\ l_end = 0
    /\ l_allow = FALSE /\ l_maxp = 0 /\ l_page = 0 /\ l_streak = 0
    /\ l_found = <<>> /\ l_seen = {} /\ l_fetched = 0 /\ l_errors = 0
    /\ l_pc = "idle"

OrchIdle ==
    /\ o_pc = "idle" /\ o_resume = FALSE /\ o_force = FALSE /\ o_stop = FALSE
    /\ o_windows = <<>> /\ o_w = 0 /\ o_store = {} /\ o_batch = <<>>
    /\ o_reports = <<>> /\ o_stats = <<>> /\ o_plan = <<>> /\ o_page_i = 0
    /\ o_seen = {} /\ o_queue = <<>> /\ o_tick = FALSE /\ o_last = <<>>
    /\ o_failed = FALSE /\ o_skipped = {} /\ o_up = <<>> /\ o_listed = {}

ScenIdle ==
    /\ s_spell = <<>>
    /\ s_next = 0
    /\ s_oldp = 0
    /\ s_page_i = 0
    /\ s_stopped = FALSE
    /\ s_seen = {}
    /\ s_store = {}
    /\ s_total = 0
    /\ s_pc = "idle"

CanonIdle ==
    /\ c_in = NoUrl
    /\ c_alt = NoUrl
    /\ c_out = NoUrl
    /\ c_alt_out = NoUrl
    /\ c_twice = NoUrl
    /\ c_pc = "idle"

LookupIdle ==
    /\ k_store = {}
    /\ k_url = NoUrl
    /\ k_rows = {}
    /\ k_before = {}
    /\ k_pc = "idle"

ModesIdle ==
    /\ m_impl = "none"
    /\ m_mode = "none"
    /\ m_tmpl = {}
    /\ m_range = FALSE
    /\ m_pc = "idle"
    /\ m_found = <<>>
    /\ m_ran = {}

StreakIdle ==
    /\ t_impl = "none"
    /\ t_start = FALSE
    /\ t_maxp = 0
    /\ t_page = 0
    /\ t_streak = 0
    /\ t_inrange = FALSE
    /\ t_seen = FALSE
    /\ t_quiet = 0
    /\ t_pc = "idle"

YmIdle ==
    /\ y_start = 0
    /\ y_end = 0
    /\ y_tmpl = FALSE
    /\ y_paged = FALSE
    /\ y_maxp = 0
    /\ y_plan = <<>>
    /\ y_out = <<>>
    /\ y_pc = "idle"

YmdIdle ==
    /\ d_start = 1
    /\ d_end = 1
    /\ d_tmpl = FALSE
    /\ d_paged = FALSE
    /\ d_maxp = 0
    /\ d_maxd = 0
    /\ d_plan = <<>>
    /\ d_out = <<>>
    /\ d_pc = "idle"

PoliteIdle ==
    /\ p_pc = "idle"
    /\ p_pages = 0
    /\ p_rows = 0
    /\ p_prev = "none"
    /\ p_fetches = 0

ExtractIdle ==
    /\ x_impl = "none"
    /\ x_page = <<>>
    /\ x_allow = FALSE
    /\ x_out = <<>>
    /\ x_acc = <<>>
    /\ x_pc = "idle"

FetchIdle ==
    /\ f_max = 0
    /\ f_attempts = 0
    /\ f_raises = 0
    /\ f_resp = [status |-> 0, ctype |-> ""]
    /\ f_ret = "none"
    /\ f_pc = "idle"

AdListIdle ==
    /\ a_start = 0
    /\ a_maxp = 0
    /\ a_plan = <<>>
    /\ a_log = <<>>
    /\ a_seen = {}
    /\ a_pc = "idle"

RunsIdle ==
    /\ w_today = 0
    /\ w_resume = FALSE
    /\ w_force = FALSE
    /\ w_windows = <<>>
    /\ w_i = 0
    /\ w_reports = <<>>
    /\ w_prev = {}
    /\ w_bad = {}
    /\ w_skipped = {}
    /\ w_ran = {}
    /\ w_first = <<>>
    /\ w_pc = "idle"

StoresIdle ==
    /\ v_store = {}
    /\ v_batch = {}
    /\ v_op = "idle"

\* RegexArchiveAdapter._within_range
WithinRange(pub, start, end_excl) ==
    IF pub = NULL THEN FALSE
    ELSE LET dt == ToOrdinal(pub)
         IN IF dt = NoDate THEN FALSE
            ELSE IF start # NoDate /\ dt < start THEN FALSE
            ELSE IF end_excl # NoDate /\ dt >= end_excl THEN FALSE
            ELSE TRUE

----------------------------------------------------------------------------
(* The repository under its callers: upsert with any Article, the meta-only *)
(* upsert of a discovered link, and content-fill.  r_op, r_art, r_raised    *)
(* record the last call, r_twice whether it repeated the call before it,    *)
(* r_nbefore the row count before it.                                       *)

\* the two article URLs of the repository machine
RepoUrl1 == ArticleUrl(1, "a")
RepoUrl2 == ArticleUrl(2, "b")
RepoUrls == {RepoUrl1, RepoUrl2}

Titles == {NULL, "", "T"}
Contents == {NULL, "", "X"}
Publisheds == {NULL, "", IsoFormat(1)}
TagLists == {<<>>, <<"t">>}
Labels == {NULL, "L"}

\* the Articles upsert is called with: any field values, id = sha256(link)
RepoArticles ==
    { Article(Sha256(RepoUrl1), t, RepoUrl1, p, Domain, c, g, l) :
        t \in Titles, c \in Contents, p \in Publisheds, g \in TagLists,
        l \in Labels }

\* what the content-fetch collaborator hands to get_or_fetch_article
FetchResults == {FetchFail} \cup {<<t, b>> : t \in {"", "T"}, b \in {"", "X"}}

RepoInit ==
    /\ r_store = {}
    /\ r_op = "init"
    /\ r_art = NoArt
    /\ r_raised = FALSE
    /\ r_twice = FALSE
    /\ r_nbefore = 0
    /\ r_fetches = 0
    /\ BatchIdle /\ ListIdle /\ OrchIdle /\ ScenIdle /\ CanonIdle /\ LookupIdle /\ ModesIdle
    /\ StreakIdle
    /\ YmIdle
    /\ YmdIdle
    /\ PoliteIdle
    /\ ExtractIdle
    /\ FetchIdle
    /\ AdListIdle
    /\ RunsIdle
    /\ StoresIdle

\* Repository.upsert(art)
RepoUpsert ==
    \E art \in RepoArticles :
        LET u == Upsert(r_store, art)
        IN /\ r_store' = u.store
           /\ r_raised' = u.raised
           /\ r_twice' = (r_op = "upsert" /\ r_art = art)
           /\ r_op' = "upsert"
           /\ r_art' = art
           /\ r_nbefore' = Cardinality(r_store)
           /\ r_fetches' = 0
           /\ UNCHANGED notRepoVars

\* a page carrying one spelling of an article link is read: _extract
\* canonicalizes it, _yield_matches builds the Article, Pipeline.collect
\* upserts it
RepoDiscover ==
    \E d \in {1, 2} : \E raw \in RawSpellings(d, IF d = 1 THEN "a" ELSE "b") :
        LET url == Canonicalize(raw)
            pub == PubOfMatch(raw)
            art == YieldArticle(url, pub)
            u == Upsert(r_store, art)
        IN /\ WithinRange(pub, NoDate, NoDate)
           /\ r_store' = u.store
           /\ r_raised' = u.raised
           /\ r_twice' = (r_op = "discover" /\ r_art = art)
           /\ r_op' = "discover"
           /\ r_art' = art
           /\ r_nbefore' = Cardinality(r_store)
           /\ r_fetches' = 0
           /\ UNCHANGED notRepoVars

\* Repository.get_or_fetch_article(url)
RepoFill ==
    \E url \in RepoUrls : \E res \in FetchResults :
        LET g == GetOrFetch(r_store, url, res)
        IN /\ r_store' = g.store
           /\ r_raised' = g.raised
           /\ r_twice' = (r_op = "fill" /\ r_art.link = url)
           /\ r_op' = "fill"
           /\ r_art' = [NoArt EXCEPT !.link = url, !.id = Sha256(url)]
           /\ r_nbefore' = Cardinality(r_store)
           /\ r_fetches' = IF g.fetched THEN 1 ELSE 0
           /\ UNCHANGED notRepoVars

RepoNext == RepoUpsert \/ RepoDiscover \/ RepoFill

SpecRepo == RepoInit /\ [][RepoNext]_vars

\* C5: upserting the same Article (title and body null) twice in a row
\* leaves exactly one stored record for its url, and the second upsert does
\* not change the record count.
UpsertTwiceOneRecord ==
    (r_op = "upsert" /\ r_twice /\ r_art.title = NULL /\ r_art.content = NULL) =>
        /\ Cardinality(RowsByUrl(r_store, r_art.link)) = 1
        /\ Cardinality(r_store) = r_nbefore

\* the same null-title, null-body Article was upserted twice in a row next
\* to another stored record
UpsertTwiceWitness ==
    /\ r_op = "upsert" /\ r_twice
    /\ r_art.title = NULL /\ r_art.content = NULL
    /\ ~r_raised
    /\ Cardinality(r_store) = 2

\* C6: a stored body that is non-null stays non-null under every later
\* upsert, discovery upsert and content-fill of the store.
BodyNeverReverts ==
    [][\A r \in r_store :
          r.content # NULL =>
              /\ RowsByUrl(r_store', r.url) # {}
              /\ \A q \in RowsByUrl(r_store', r.url) : q.content # NULL]_vars

\* a body-less upsert or discovery just hit a record whose body is filled
BodyNeverRevertsWitness ==
    /\ r_op \in {"upsert", "discover"}
    /\ r_art.content = NULL
    /\ \E r \in RowsByUrl(r_store, r_art.link) : r.content = "X"

\* the stored record of url has a non-empty body
HasBody(st, url) == \E r \in RowsByUrl(st, url) : Truthy(r.content)

\* C21: get_or_fetch_article on a URL whose stored record has a non-empty
\* body calls the content-fetch collaborator zero times and leaves the table
\* as it is; on a URL without a stored body it calls it exactly once; a
\* content fill that follows one which stored a non-empty body for the same
\* URL fetches nothing.
ContentFillIdempotent ==
    [][r_op' = "fill" =>
          /\ HasBody(r_store, r_art'.link) =>
                 r_fetches' = 0 /\ r_store' = r_store /\ ~r_raised'
          /\ ~HasBody(r_store, r_art'.link) => r_fetches' = 1
          /\ (/\ r_op = "fill" /\ r_fetches = 1
              /\ r_art'.link = r_art.link
              /\ HasBody(r_store, r_art.link)) => r_fetches' = 0]_vars

\* the fill of a URL is repeated after the body has been stored, next to
\* another record, and fetches nothing
ContentFillWitness ==
    /\ r_op = "fill" /\ r_twice
    /\ r_fetches = 0
    /\ HasBody(r_store, r_art.link)
    /\ Cardinality(r_store) = 2

\* a stored value counts as populated when it is neither NULL nor empty
Populated(v) == v # NULL /\ v # ""

\* C7: when upsert hits an existing record, per merged field an incoming
\* null or empty value leaves a populated stored value alone and an incoming
\* non-null non-empty value replaces the stored one.
UpsertMergeRule ==
    [][(r_op' = "upsert" /\ ~r_raised') =>
         \A r \in r_store : r.id = r_art'.id =>
           \E q \in r_store' :
             /\ q.id = r.id
             /\ (~Populated(r_art'.title) /\ Populated(r.title)) => q.title = r.title
             /\ Populated(r_art'.title) => q.title = r_art'.title
             /\ (~Populated(r_art'.content) /\ Populated(r.content)) => q.content = r.content
             /\ Populated(r_art'.content) => q.content = r_art'.content
             /\ (~Populated(r_art'.published) /\ Populated(r.published_date))
                    => q.published_date = r.published_date
             /\ Populated(r_art'.published) => q.published_date = r_art'.published
             /\ (r_art'.matched_tags = <<>> /\ Populated(r.matched_tags))
                    => q.matched_tags = r.matched_tags
             /\ r_art'.matched_tags # <<>>
                    => q.matched_tags = JoinComma(r_art'.matched_tags)
             /\ (~Populated(r_art'.label) /\ Populated(r.label)) => q.label = r.label
             /\ Populated(r_art'.label) => q.label = r_art'.label]_vars

\* C33: whatever the content fetch brings (unavailable, or an extraction
\* with an empty title or body), get_or_fetch_article leaves every stored
\* record in place and does not turn a populated title, body or published
\* date of it into a null or empty value.
ContentFillNeverClobbers ==
    [][r_op' = "fill" =>
          \A r \in r_store :
              \E q \in r_store' :
                  /\ q.id = r.id
                  /\ Populated(r.title) => Populated(q.title)
                  /\ Populated(r.content) => Populated(q.content)
                  /\ Populated(r.published_date)
                        => Populated(q.published_date)]_vars

----------------------------------------------------------------------------
(* crawl_archivum (multi_archive_crawler_index.py; 444_archive_crawler.py  *)
(* runs the same loop without canonicalizing).  The site is fixed before    *)
(* the crawl: page p of the listing is l_site[p] for p <= NPages and l_tail *)
(* beyond; a page is PageFail or the sequence of article links matched on  *)
(* it.                                                                      *)

\* listing pages the site defines individually
NPages == 3
\* days on which the listing has articles
ListDays == 3

\* no --max-pages
NoCap == 0
\* the --max-pages value explored
PageCap == NPages + 2

ListLink(d) == ArticleUrl(d, "a")

\* a differently spelled link to the newest article, a link whose date
\* groups are no calendar day
AltLink == Url("http", "444.HU", <<"/", PathDateTable[ListDays], "/", "a", "/">>, "")
BadLink == Url("https", Domain, <<"/", BadPathDate, "/", "a">>, "")

\* fetch_text: None (status >= 400, not HTML, exception) or the page text,
\* of which the crawl reads the article links matched on it
PageFail == [ok |-> FALSE, links |-> <<>>, rel |-> <<>>]
PageOf(links) == [ok |-> TRUE, links |-> links, rel |-> <<>>]

ListPages ==
    {PageOf(<<>>)} \cup {PageOf(<<ListLink(d)>>) : d \in 1..ListDays}
           \cup {PageOf(<<AltLink>>), PageOf(<<BadLink>>)}
           \cup {PageOf(<<ListLink(d), ListLink(d - 1)>>) : d \in 2..ListDays}

\* fetch_text of listing page p
SitePage(site, tail, p) == IF p <= Len(site) THEN site[p] ELSE tail

\* FoundUrl
FoundUrl(url, guess) == [url |-> url, pubdate_guess |-> guess]

\* date(y, mo, d) of the regex groups, None when it raises
DateGuess(raw) == ToOrdinal(PubOfMatch(raw))

RECURSIVE ExtractLinks(_, _)
\* extract_article_links: canonicalize each match, keep the first occurrence
ExtractLinks(matches, seen) ==
    IF matches = <<>> THEN <<>>
    ELSE LET url == Canonicalize(Head(matches))
         IN IF url \in seen THEN ExtractLinks(Tail(matches), seen)
            ELSE <<FoundUrl(url, DateGuess(Head(matches)))>>
                     \o ExtractLinks(Tail(matches), seen \cup {url})

within_range_closed(d, start, end_excl, allow_missing) ==
    IF d = NoDate THEN allow_missing
    ELSE IF start # NoDate /\ d < start THEN FALSE
    ELSE IF end_excl # NoDate /\ d > end_excl THEN FALSE
    ELSE TRUE

\* within_range(d, start, end_excl, allow_missing)
within_range(d, start, end_excl, allow_missing) ==
    IF d = NoDate THEN allow_missing
    ELSE IF start # NoDate /\ d < start THEN FALSE
    ELSE IF end_excl # NoDate /\ d >= end_excl THEN FALSE
    ELSE TRUE

RECURSIVE AcceptLinks(_, _, _, _, _)
\* the `for fu in links` loop: the links appended to found, in order
AcceptLinks(links, seen, start, end_excl, allow_missing) ==
    IF links = <<>> THEN <<>>
    ELSE LET fu == Head(links)
         IN IF fu.url \notin seen
               /\ within_range(fu.pubdate_guess, start, end_excl, allow_missing)
            THEN <<fu>> \o AcceptLinks(Tail(links), seen \cup {fu.url},
                                       start, end_excl, allow_missing)
            ELSE AcceptLinks(Tail(links), seen, start, end_excl, allow_missing)

\* empty pages in a row that end the listing
EmptyStreakThreshold == 2

StopOnStreakNever(streak, start) == FALSE

\* `if empty_streak >= 2 and start is not None: break`
StopOnStreak(streak, start) == streak >= EmptyStreakThreshold /\ start # NoDate

ListInit ==
    /\ l_site \in [1..NPages -> ListPages \cup {PageFail}]
    /\ l_tail \in {PageFail, PageOf(<<ListLink(1)>>)}
    /\ l_start \in {NoDate} \cup (1..ListDays)
    /\ l_end \in {NoDate} \cup (2..(ListDays + 1))
    /\ (l_start # NoDate /\ l_end # NoDate) => l_start < l_end
    /\ l_allow \in BOOLEAN
    /\ l_maxp \in {NoCap, PageCap}
    /\ l_page = 1
    /\ l_streak = 0
    /\ l_found = <<>>
    /\ l_seen = {}
    /\ l_fetched = 0
    /\ l_errors = 0
    /\ l_pc = "loop"
    /\ BatchIdle /\ RepoIdle /\ OrchIdle /\ ScenIdle /\ CanonIdle /\ LookupIdle /\ ModesIdle
    /\ StreakIdle
    /\ YmIdle
    /\ YmdIdle
    /\ PoliteIdle
    /\ ExtractIdle
    /\ FetchIdle
    /\ AdListIdle
    /\ RunsIdle
    /\ StoresIdle

\* `if max_pages is not None and page > max_pages: break`
ListCapExit ==
    /\ l_pc = "loop"
    /\ l_maxp # NoCap /\ l_page > l_maxp
    /\ l_pc' = "done"
    /\ UNCHANGED <<l_site, l_tail, l_start, l_end, l_allow, l_maxp, l_page,
                   l_streak, l_found, l_seen, l_fetched, l_errors>>
    /\ UNCHANGED notListVars

\* one iteration of the loop whose fetch fails
ListPageFail ==
    /\ l_pc = "loop"
    /\ ~(l_maxp # NoCap /\ l_page > l_maxp)
    /\ l_page <= PageCap + 1
    /\ ~SitePage(l_site, l_tail, l_page).ok
    /\ l_fetched' = l_fetched + 1
    /\ l_errors' = l_errors + 1
    /\ l_streak' = l_streak + 1
    /\ IF l_streak + 1 >= EmptyStreakThreshold
       THEN l_pc' = "done" /\ l_page' = l_page
       ELSE l_pc' = "loop" /\ l_page' = l_page + 1
    /\ UNCHANGED <<l_site, l_tail, l_start, l_end, l_allow, l_maxp,
                   l_found, l_seen>>
    /\ UNCHANGED notListVars

\* one iteration of the loop whose fetch returns a page
ListPageOk ==
    /\ l_pc = "loop"
    /\ ~(l_maxp # NoCap /\ l_page > l_maxp)
    /\ l_page <= PageCap + 1
    /\ SitePage(l_site, l_tail, l_page).ok
    /\ LET links == ExtractLinks(SitePage(l_site, l_tail, l_page).links, {})
           new == AcceptLinks(links, l_seen, l_start, l_end, l_allow)
           streak == IF Len(new) > 0 THEN 0 ELSE l_streak + 1
       IN /\ l_fetched' = l_fetched + 1
          /\ l_found' = l_found \o new
          /\ l_seen' = l_seen \cup {new[i].url : i \in 1..Len(new)}
          /\ l_streak' = streak
          /\ IF StopOnStreak(streak, l_start)
             THEN l_pc' = "done" /\ l_page' = l_page
             ELSE l_pc' = "loop" /\ l_page' = l_page + 1
    /\ UNCHANGED <<l_site, l_tail, l_start, l_end, l_allow, l_maxp, l_errors>>
    /\ UNCHANGED notListVars

ListNext == ListCapExit \/ ListPageFail \/ ListPageOk

SpecListing == ListInit /\ [][ListNext]_vars

\* the listing pages the crawl may fetch: up to the cap, or the pages of the
\* site and its tail when there is no cap
PagesInCap == 1..(IF l_maxp = NoCap THEN NPages + 1 ELSE l_maxp)

\* the dates of the links of page p, in page order
PageDates(p) ==
    LET pg == SitePage(l_site, l_tail, p).links
    IN [i \in 1..Len(pg) |-> DateGuess(pg[i])]

\* every page fetches and lists at least one link, every link is dated, and
\* dates never increase along the listing
NewestFirst ==
    /\ \A p \in PagesInCap : SitePage(l_site, l_tail, p).ok
    /\ \A p \in PagesInCap : Len(PageDates(p)) >= 1
    /\ \A p \in PagesInCap : \A i \in 1..Len(PageDates(p)) :
          PageDates(p)[i] # NoDate
    /\ \A p, q \in PagesInCap : \A i \in 1..Len(PageDates(p)) :
          \A j \in 1..Len(PageDates(q)) :
             (p < q \/ (p = q /\ i < j)) => PageDates(p)[i] >= PageDates(q)[j]

InWindow(d) ==
    /\ d # NoDate
    /\ d >= l_start
    /\ (l_end # NoDate => d < l_end)

\* C3: on a newest-first listing whose pages all fetch, when the listing
\* crawl with a date_from has stopped, every link of every listing page
\* dated inside [date_from, date_to_exclusive) has been accepted.
EarlyStopMissesNothing ==
    (l_pc = "done" /\ l_start # NoDate /\ NewestFirst) =>
        \A p \in PagesInCap :
            \A i \in 1..Len(SitePage(l_site, l_tail, p).links) :
                InWindow(PageDates(p)[i]) =>
                    Canonicalize(SitePage(l_site, l_tail, p).links[i]) \in l_seen

\* pages 1..k each carry a link dated inside the window and every later
\* page fetches and carries only links dated before date_from
StopScenario(k) ==
    /\ \A p \in 1..k :
          /\ SitePage(l_site, l_tail, p).ok
          /\ \E i \in 1..Len(PageDates(p)) : InWindow(PageDates(p)[i])
    /\ \A p \in (k + 1)..(PageCap + 1) :
          /\ SitePage(l_site, l_tail, p).ok
          /\ \A i \in 1..Len(PageDates(p)) :
                PageDates(p)[i] # NoDate /\ PageDates(p)[i] < l_start

\* C4: with date_from supplied, when pages 1..k carry in-window dates and
\* all later pages only dates before date_from, crawl_archivum fetches at
\* most k + 2 pages.
EarlyStopWithinThreshold ==
    (l_pc = "done" /\ l_start # NoDate) =>
        \A k \in 0..NPages :
            StopScenario(k) => l_fetched <= k + EmptyStreakThreshold

\* the crawl stopped two pages past the last in-window page, short of the
\* page cap
EarlyStopWitness ==
    /\ l_pc = "done" /\ l_start # NoDate /\ l_maxp = PageCap
    /\ StopScenario(1)
    /\ l_fetched = 1 + EmptyStreakThreshold
    /\ l_fetched < l_maxp
    /\ Len(l_found) >= 1

\* C11: every link crawl_archivum has accepted is dated inside
\* [date_from, date_to_exclusive) (a bound that is absent does not apply),
\* or is undated with allow-missing-date on; and every link of a fetched
\* page dated exactly date_from has been accepted.  A link dated exactly
\* date_to_exclusive is thereby never among the accepted.
AcceptanceRule ==
    /\ \A i \in 1..Len(l_found) :
          LET d == l_found[i].pubdate_guess
          IN IF d = NoDate THEN l_allow
             ELSE /\ (l_start # NoDate => l_start <= d)
                  /\ (l_end # NoDate => d < l_end)
    /\ \A p \in 1..l_fetched :
          \A i \in 1..Len(SitePage(l_site, l_tail, p).links) :
             (l_start # NoDate /\ PageDates(p)[i] = l_start) =>
                 Canonicalize(SitePage(l_site, l_tail, p).links[i]) \in l_seen

\* the crawl has fetched a page with a link dated date_to_exclusive and left
\* it out, and has accepted a link dated date_from
AcceptanceRuleWitness ==
    /\ l_start # NoDate /\ l_end # NoDate
    /\ \E i \in 1..Len(l_found) : l_found[i].pubdate_guess = l_start
    /\ \E p \in 1..l_fetched :
          \E i \in 1..Len(SitePage(l_site, l_tail, p).links) :
             /\ PageDates(p)[i] = l_end
             /\ Canonicalize(SitePage(l_site, l_tail, p).links[i]) \notin l_seen

\* C27: without date_from the listing crawl returns only at the page cap,
\* whatever the pages bring, failed fetches included.
NoLowerBoundOnlyCap ==
    (l_pc = "done" /\ l_start = NoDate) =>
        (l_maxp # NoCap /\ l_page > l_maxp)

----------------------------------------------------------------------------
(* RegexArchiveAdapter (the 444 configuration: archivum, ym, ym_page, ymd,  *)
(* ymd_page) and Pipeline.collect                                           *)

\* urljoin(self._base_url.rstrip('/') + '/', rel) of a site-relative href
UrlJoin(rel) == Url("https", Domain, rel, "")

MatchUrlRaw(raw) == raw

\* url = self._canonicalize(m.group(0))
MatchUrl(raw) == Canonicalize(raw)

RECURSIVE ExtractSeq(_, _)
\* the two loops of _extract over the matches in order: (url, pub) pairs,
\* first occurrence of each url kept
ExtractSeq(raws, seen) ==
    IF raws = <<>> THEN <<>>
    ELSE LET url == MatchUrl(Head(raws))
             pub == PubOfMatch(Head(raws))
         IN IF url \in seen THEN ExtractSeq(Tail(raws), seen)
            ELSE <<[url |-> url, pub |-> pub]>>
                     \o ExtractSeq(Tail(raws), seen \cup {url})

\* RegexArchiveAdapter._extract: absolute matches, then relative ones
Extract(page) ==
    ExtractSeq(page.links \o [i \in 1..Len(page.rel) |-> UrlJoin(page.rel[i])], {})

RECURSIVE YieldMatches(_, _, _, _)
\* RegexArchiveAdapter._yield_matches: the Articles yielded, in order
YieldMatches(matches, seen, start, end_excl) ==
    IF matches = <<>> THEN <<>>
    ELSE LET m == Head(matches)
         IN IF m.url \in seen \/ ~WithinRange(m.pub, start, end_excl)
            THEN YieldMatches(Tail(matches), seen, start, end_excl)
            ELSE <<YieldArticle(m.url, m.pub)>>
                     \o YieldMatches(Tail(matches), seen \cup {m.url},
                                     start, end_excl)

\* CRAWL_MAX_PAGES, CRAWL_YM_MAX_PAGES, CRAWL_YMD_MAX_PAGES, CRAWL_MAX_DAYS
\* (40, 8, 8 and 14 by default), scaled down
AdMaxPages == 2
YmMaxPages == 0
YmdMaxPages == 0
CrawlMaxDays == 1

Reverse(q) == [i \in 1..Len(q) |-> q[Len(q) + 1 - i]]

RECURSIVE Flatten(_)
Flatten(qq) == IF qq = <<>> THEN <<>> ELSE Head(qq) \o Flatten(Tail(qq))

\* a page request of the adapter: listing page, month page, day page;
\* page 0 is the unpaginated template
Request(kind, key, page) == [kind |-> kind, key |-> key, page |-> page]

\* _iter_archivum_urls with _max_pages = max_pages
ArchivumUrls(max_pages) == [i \in 1..max_pages |-> Request("archivum", 0, i)]

\* _iter_archivum_urls
IterArchivumUrls == ArchivumUrls(AdMaxPages)

RECURSIVE MonthsFrom(_, _)
\* the `while cur < end_excl` loop of _iter_ym_urls, cur the first of month m
MonthsFrom(m, end_excl) ==
    IF FirstOfMonth(m) < end_excl
    THEN <<m>> \o MonthsFrom(m + 1, end_excl)
    ELSE <<>>

YmUrlsForward(start, end_excl, tmpl, tmpl_paged, max_pages) ==
    LET months == MonthsFrom(MonthTable[start], end_excl)
    IN IF ~tmpl /\ ~tmpl_paged THEN <<>>
       ELSE Flatten([i \in 1..Len(months) |->
               (IF tmpl THEN <<Request("ym", months[i], 0)>> ELSE <<>>)
                  \o (IF tmpl_paged
                      THEN [p \in 1..max_pages |-> Request("ym", months[i], p)]
                      ELSE <<>>)])

\* _iter_ym_urls(start, end_excl, reverse=True) of an adapter with the ym
\* template, the ym_page template, or both, and _ym_max_pages
YmUrls(start, end_excl, tmpl, tmpl_paged, max_pages) ==
    LET months == Reverse(MonthsFrom(MonthTable[start], end_excl))
    IN IF ~tmpl /\ ~tmpl_paged THEN <<>>
       ELSE Flatten([i \in 1..Len(months) |->
               (IF tmpl THEN <<Request("ym", months[i], 0)>> ELSE <<>>)
                  \o (IF tmpl_paged
                      THEN [p \in 1..max_pages |-> Request("ym", months[i], p)]
                      ELSE <<>>)])

\* _iter_ym_urls of the 444 adapter: both templates
IterYmUrls(start, end_excl) == YmUrls(start, end_excl, TRUE, TRUE, YmMaxPages)

\* days[:max_days]: a negative bound counts from the end of the list
PySlice(q, k) ==
    IF k >= 0 THEN SubSeq(q, 1, Min(Len(q), k))
    ELSE SubSeq(q, 1, IF Len(q) + k > 0 THEN Len(q) + k ELSE 0)

\* _iter_ymd_urls(start, end_excl, reverse=True, max_days) of an adapter with
\* the ymd template, the ymd_page template, or both, and _ymd_max_pages
YmdUrls(start, end_excl, tmpl, tmpl_paged, max_pages, max_days) ==
    LET all == Reverse([i \in 1..(end_excl - start) |-> start + i - 1])
        days == PySlice(all, max_days)
    IN IF ~tmpl /\ ~tmpl_paged THEN <<>>
       ELSE Flatten([i \in 1..Len(days) |->
               (IF tmpl THEN <<Request("ymd", days[i], 0)>> ELSE <<>>)
                  \o (IF tmpl_paged
                      THEN [p \in 1..max_pages |-> Request("ymd", days[i], p)]
                      ELSE <<>>)])

\* _iter_ymd_urls of the 444 adapter: both templates
IterYmdUrls(start, end_excl, max_days) ==
    YmdUrls(start, end_excl, TRUE, TRUE, YmdMaxPages, max_days)

\* the requests iter_archive makes when no listing page stops it early
IterArchive(start, end_excl) ==
    IterArchivumUrls \o IterYmUrls(start, end_excl)
                     \o IterYmdUrls(start, end_excl, CrawlMaxDays)

\* `break` out of the listing loop: the remaining listing pages are dropped
DropArchivum(plan) == SelectSeq(plan, LAMBDA r : r.kind # "archivum")

AllOldNever(matches, start) == FALSE

\* `all_old`: no link of the page is dated on or after start
AllOld(matches, start) ==
    \A i \in 1..Len(matches) : ~WithinRange(matches[i].pub, start, NoDate)

RECURSIVE UpsertAll(_, _)
\* Pipeline.collect: self.repo.upsert(art) for each yielded Article
UpsertAll(st, arts) ==
    IF arts = <<>> THEN st
    ELSE UpsertAll(Upsert(st, Head(arts)).store, Tail(arts))

----------------------------------------------------------------------------
(* RegexArchiveAdapter.iter_archive and Pipeline.collect on a newest-first  *)
(* listing: one article per day for the ScenDays days of the requested      *)
(* range, then ScenOldPages pages of older dates.  The adapter has a        *)
(* listing template only, so the month and day phases do not run.  How the  *)
(* site cuts the listing into pages is chosen as the pages are fetched.     *)

\* days of the range, one article each (31 in the scenario)
ScenDays == 3
\* most articles on a listing page
ScenPageSize == 2
\* first day of the range; the days before it carry the older articles
ScenStart == 4
ScenOldPages == ScenStart - 1
ScenEnd == ScenStart + ScenDays
\* CRAWL_MAX_PAGES: as in the source (40), more than the pages of the listing
ScenMaxPages == ScenDays + ScenOldPages + 1

Spellings == {"canonical", "alternate", "relative"}

\* the day of the k-th article of the listing, newest first
ScenDay(k) == ScenEnd - k

\* listing page carrying the articles k .. k + n - 1
ScenPage(spell, k, n) ==
    LET ks == [i \in 1..n |-> k + i - 1]
        abs == SelectSeq(ks, LAMBDA j : spell[j] # "relative")
        rel == SelectSeq(ks, LAMBDA j : spell[j] = "relative")
    IN [ok |-> TRUE,
        links |-> [i \in 1..Len(abs) |->
                     IF spell[abs[i]] = "canonical"
                     THEN ArticleUrl(ScenDay(abs[i]), "a")
                     ELSE Url("http", "444.HU",
                              <<"/", PathDateTable[ScenDay(abs[i])], "/", "a", "/">>,
                              "")],
        rel |-> [i \in 1..Len(rel) |->
                     <<"/", PathDateTable[ScenDay(rel[i])], "/", "a">>]]

\* the j-th page of older dates
ScenOldPage(j) == PageOf(<<ArticleUrl(ScenStart - j, "o")>>)

ScenInit ==
    /\ s_spell \in [1..ScenDays -> Spellings]
    /\ s_next = 1
    /\ s_oldp = 0
    /\ s_page_i = 0
    /\ s_stopped = FALSE
    /\ s_seen = {}
    /\ s_store = {}
    /\ s_total = 0
    /\ s_pc = "listing"
    /\ BatchIdle /\ RepoIdle /\ ListIdle /\ OrchIdle /\ CanonIdle /\ LookupIdle /\ ModesIdle
    /\ StreakIdle
    /\ YmIdle
    /\ YmdIdle
    /\ PoliteIdle
    /\ ExtractIdle
    /\ FetchIdle
    /\ AdListIdle
    /\ RunsIdle
    /\ StoresIdle

\* what one iteration of the listing loop does with the page it fetched
ScenHandle(page, next, oldp) ==
    LET page_i == s_page_i + 1
        matches == Extract(page)
        stop == page.ok /\ AllOld(matches, ScenStart) /\ page_i > 1
        arts == IF page.ok /\ ~stop
                THEN YieldMatches(matches, s_seen, ScenStart, ScenEnd)
                ELSE <<>>
    IN /\ s_page_i' = page_i
       /\ s_stopped' = stop
       /\ s_store' = UpsertAll(s_store, arts)
       /\ s_seen' = s_seen \cup {arts[i].link : i \in 1..Len(arts)}
       /\ s_total' = s_total + Len(arts)
       /\ s_next' = next
       /\ s_oldp' = oldp

\* one iteration of `for page_url in self._iter_archivum_urls()`
ScenFetch ==
    /\ s_pc = "listing"
    /\ ~s_stopped
    /\ s_page_i < ScenMaxPages
    /\ IF s_next <= ScenDays
       THEN \E n \in 1..Min(ScenPageSize, ScenDays - s_next + 1) :
               ScenHandle(ScenPage(s_spell, s_next, n), s_next + n, s_oldp)
       ELSE IF s_oldp < ScenOldPages
       THEN ScenHandle(ScenOldPage(s_oldp + 1), s_next, s_oldp + 1)
       ELSE ScenHandle(PageFail, s_next, s_oldp)
    /\ UNCHANGED <<s_spell, s_pc>>
    /\ UNCHANGED notScenVars

\* the listing loop is left (`break`, or the page cap); Pipeline.collect
\* returns total
ScenReturn ==
    /\ s_pc = "listing"
    /\ (s_stopped \/ s_page_i >= ScenMaxPages)
    /\ s_pc' = "done"
    /\ UNCHANGED <<s_spell, s_next, s_oldp, s_page_i, s_stopped, s_seen,
                   s_store, s_total>>
    /\ UNCHANGED notScenVars

ScenNext == ScenFetch \/ ScenReturn

SpecScenario == ScenInit /\ [][ScenNext]_vars

\* C12: on the newest-first listing with one article per day of the range
\* followed by pages of older dates only, discovery plus upsert ends with
\* exactly one stored record per day of the range, none dated before the
\* range, and the listing loop has fetched no older-only page past the
\* first one.
EndToEndScenario ==
    s_pc = "done" =>
        /\ Cardinality(s_store) = ScenDays
        /\ s_total = ScenDays
        /\ \A d \in ScenStart..(ScenEnd - 1) :
              \E r \in s_store : ToOrdinal(r.published_date) = d
        /\ \A r \in s_store : ToOrdinal(r.published_date) >= ScenStart
        /\ s_oldp <= 1

\* the crawl is over: it saw every article, in more than one spelling, and
\* stopped on the first page of older dates
EndToEndWitness ==
    /\ s_pc = "done"
    /\ s_stopped
    /\ s_oldp = 1
    /\ Cardinality(s_store) = ScenDays
    /\ \E i, j \in 1..ScenDays : s_spell[i] # s_spell[j]

----------------------------------------------------------------------------
(* The canonicalizer as a function: RegexArchiveAdapter._canonicalize, and  *)
(* canonicalize_url of the standalone crawlers with force_https on.         *)

\* longest path, in tokens
MaxPathLen == 4

Schemes == {"", "http", "https"}
Queries == {"", "page=2"}

\* the paths urlparse can return next to a host: empty, or starting with a
\* slash; no two segments without a slash between them
CanonPaths ==
    LET tok == {"/", "a"}
        all == UNION {[1..n -> tok] : n \in 0..MaxPathLen}
    IN {p \in all :
          /\ (p # <<>> => p[1] = "/")
          /\ \A i \in 1..(Len(p) - 1) : ~(p[i] = "a" /\ p[i + 1] = "a")}

CanonUrls ==
    {Url(sch, h, p, q) : sch \in Schemes, h \in Hosts, p \in CanonPaths,
                         q \in Queries}

CanonInit ==
    /\ c_in \in CanonUrls
    /\ c_alt \in CanonUrls
    /\ c_out = NoUrl
    /\ c_alt_out = NoUrl
    /\ c_twice = NoUrl
    /\ c_pc = "in"
    /\ BatchIdle /\ RepoIdle /\ ListIdle /\ OrchIdle /\ ScenIdle /\ LookupIdle /\ ModesIdle
    /\ StreakIdle
    /\ YmIdle
    /\ YmdIdle
    /\ PoliteIdle
    /\ ExtractIdle
    /\ FetchIdle
    /\ AdListIdle
    /\ RunsIdle
    /\ StoresIdle

\* canonicalize(x), canonicalize(y)
CanonApply ==
    /\ c_pc = "in"
    /\ c_out' = Canonicalize(c_in)
    /\ c_alt_out' = Canonicalize(c_alt)
    /\ c_pc' = "once"
    /\ UNCHANGED <<c_in, c_alt, c_twice>>
    /\ UNCHANGED notCanonVars

\* canonicalize(canonicalize(x))
CanonAgain ==
    /\ c_pc = "once"
    /\ c_twice' = Canonicalize(c_out)
    /\ c_pc' = "twice"
    /\ UNCHANGED <<c_in, c_alt, c_out, c_alt_out>>
    /\ UNCHANGED notCanonVars

CanonNext == CanonApply \/ CanonAgain

SpecCanon == CanonInit /\ [][CanonNext]_vars

\* C13: canonicalize(canonicalize(x)) = canonicalize(x) for every URL x.
CanonIdempotent ==
    c_pc = "twice" => c_twice = c_out

\* a path other than the root
NonRoot(p) == p # <<>> /\ p # <<"/">>

\* y is x with one more slash at the end of its non-root path
OneMoreSlash(x, y) == NonRoot(x.path) /\ y.path = x.path \o <<"/">>

\* x and y differ at most in scheme (http, https), in the letter case of
\* the host and in one trailing slash on a non-root path
SameButSpelling(x, y) ==
    /\ x.scheme \in {"http", "https"} /\ y.scheme \in {"http", "https"}
    /\ x.netloc \in Hosts /\ y.netloc \in Hosts
    /\ x.query = y.query
    /\ (x.path = y.path \/ OneMoreSlash(x, y) \/ OneMoreSlash(y, x))

\* C14: with https forced, two URLs that differ only in scheme, in the
\* letter case of the host or in one trailing slash on a non-root path have
\* the same canonical form.
CanonInsensitive ==
    (c_pc # "in" /\ SameButSpelling(c_in, c_alt)) => c_out = c_alt_out

\* HTTP://444.HU/a/ against https://444.hu/a: all three differences at once
CanonInsensitiveWitness ==
    /\ c_pc = "once"
    /\ c_in = Url("http", "444.HU", <<"/", "a", "/">>, "")
    /\ c_alt = Url("https", "444.hu", <<"/", "a">>, "")
    /\ c_out = c_alt_out

\* C15: the canonical form keeps the query; it keeps the path, except that
\* exactly one trailing slash is taken off a non-root path (an empty path
\* may come back as the root).
CanonFrame ==
    c_pc # "in" =>
        /\ c_out.query = c_in.query
        /\ c_out.path =
              IF c_in.path = <<>> THEN <<"/">>
              ELSE IF NonRoot(c_in.path) /\ c_in.path[Len(c_in.path)] = "/"
              THEN SubSeq(c_in.path, 1, Len(c_in.path) - 1)
              ELSE c_in.path

----------------------------------------------------------------------------
(* Repository.get_article_row_by_url and get_or_fetch_article asked for a   *)
(* URL in any spelling, on a table holding one record.                      *)

LookupInit ==
    /\ \E art \in RepoArticles : k_store = Upsert({}, art).store
    /\ k_url = NoUrl
    /\ k_rows = {}
    /\ k_before = {}
    /\ k_pc = "init"
    /\ BatchIdle /\ RepoIdle /\ ListIdle /\ OrchIdle /\ ScenIdle /\ CanonIdle /\ ModesIdle
    /\ StreakIdle
    /\ YmIdle
    /\ YmdIdle
    /\ PoliteIdle
    /\ ExtractIdle
    /\ FetchIdle
    /\ AdListIdle
    /\ RunsIdle
    /\ StoresIdle

\* get_article_row_by_url(u)
LookupGet ==
    /\ k_pc = "init"
    /\ \E u \in RawSpellings(1, "a") :
          /\ k_url' = u
          /\ k_rows' = RowsByUrl(k_store, u)
    /\ k_pc' = "looked"
    /\ UNCHANGED <<k_store, k_before>>
    /\ UNCHANGED notLookupVars

\* get_or_fetch_article(u)
LookupFill ==
    /\ k_pc = "looked"
    /\ \E res \in FetchResults :
          k_store' = GetOrFetch(k_store, k_url, res).store
    /\ k_before' = k_store
    /\ k_pc' = "filled"
    /\ UNCHANGED <<k_url, k_rows>>
    /\ UNCHANGED notLookupVars

LookupNext == LookupGet \/ LookupFill

SpecLookup == LookupInit /\ [][LookupNext]_vars

\* C16: asked for a URL whose canonical form is the stored URL of a record,
\* get_article_row_by_url returns that record, and get_or_fetch_article
\* fills that record and adds no second one.
LookupCanonical ==
    k_pc \in {"looked", "filled"} =>
        /\ k_rows = RowsByUrl(IF k_pc = "looked" THEN k_store ELSE k_before,
                              Canonicalize(k_url))
        /\ k_rows # {}
        /\ (k_pc = "filled" =>
               {r.url : r \in k_store} = {r.url : r \in k_before})

----------------------------------------------------------------------------
(* main of the crawlers: the dispatch on --mode of                          *)
(* multi_archive_crawler_telexfix.py and multi_archive_crawler_index.py,    *)
(* and RegexArchiveAdapter.iter_archive, which has the one sequence         *)
(* listing, month pages, day pages.  A strategy is run as a whole; what its *)
(* pages hold is a sequence of distinct in-range links, numbered.           *)

\* `len(found) < 200`
MinAccepted == 200

Impls == {"telexfix", "index", "adapter"}
Strategies == {"archivum", "ym", "ymd"}
Modes == Strategies \cup {"auto"}

Range(a, b) == [i \in 1..(b - a + 1) |-> a + i - 1]

Elems(q) == {q[i] : i \in DOMAIN q}

\* the in-range links the pages of a strategy hold
ListingContents ==
    {<<>>, Range(1, MinAccepted \div 2), Range(1, MinAccepted - 1),
     Range(1, MinAccepted)}
YmContents ==
    {<<>>, Range(1, MinAccepted \div 2),
     Range(MinAccepted + 1, MinAccepted + 1)}
YmdContents == {<<>>, <<1>>, <<MinAccepted + 2>>}

\* what a strategy adds to the result list: crawl_archivum, crawl_ym and
\* crawl_ymd each start from an empty `seen` of their own and main extends
\* found by what they return; iter_archive passes its one `seen` to every
\* _yield_matches
Accepted(impl, found, content) ==
    IF impl = "adapter"
    THEN SelectSeq(content, LAMBDA x : x \notin Elems(found))
    ELSE content

\* a single strategy is selected: sys.exit(2), the crawl, or nothing
ModeOutcome(impl, mode, tmpl, range) ==
    IF mode \notin tmpl
    THEN IF impl = "index" /\ mode = "archivum" THEN "skip" ELSE "error"
    ELSE IF impl = "telexfix" /\ mode \in {"ym", "ymd"} /\ ~range
         THEN "error"
         ELSE "run"

\* auto: whether the listing runs
ListingFirst(impl, tmpl) == "archivum" \in tmpl

\* auto: whether the month pages run after the listing
YmFallback(impl, tmpl, found, range) ==
    IF impl = "telexfix"
    THEN "ym" \in tmpl /\ Len(found) < MinAccepted /\ range
    ELSE IF impl = "index"
    THEN Len(found) < MinAccepted /\ "ym" \in tmpl
    ELSE "ym" \in tmpl /\ range

\* auto: whether the day pages run after the month pages
YmdFallback(impl, tmpl, found, range) ==
    IF impl = "telexfix"
    THEN "ymd" \in tmpl /\ Len(found) < MinAccepted /\ range
    ELSE IF impl = "index"
    THEN FALSE
    ELSE "ymd" \in tmpl /\ range

\* found_unique: the first occurrence of every URL, in order
Dedup(found) ==
    SelectSeq([i \in DOMAIN found |->
                  IF \E j \in 1..(i - 1) : found[j] = found[i]
                  THEN 0 ELSE found[i]],
              LAMBDA x : x # 0)

ContentsOf(strategy) ==
    IF strategy = "archivum" THEN ListingContents
    ELSE IF strategy = "ym" THEN YmContents
    ELSE YmdContents

ModesInit ==
    /\ m_impl \in Impls
    /\ m_mode \in (IF m_impl = "adapter" THEN {"auto"} ELSE Modes)
    /\ m_tmpl \in SUBSET Strategies
    /\ m_range \in BOOLEAN
    /\ m_pc = "start"
    /\ m_found = <<>>
    /\ m_ran = {}
    /\ BatchIdle /\ RepoIdle /\ ListIdle /\ OrchIdle /\ ScenIdle /\ CanonIdle
    /\ LookupIdle
    /\ StreakIdle
    /\ YmIdle
    /\ YmdIdle
    /\ PoliteIdle
    /\ ExtractIdle
    /\ FetchIdle
    /\ AdListIdle
    /\ RunsIdle
    /\ StoresIdle

\* --mode archivum | ym | ymd
ModeSingle ==
    /\ m_pc = "start"
    /\ m_mode \in Strategies
    /\ LET out == ModeOutcome(m_impl, m_mode, m_tmpl, m_range)
       IN IF out = "error"
          THEN /\ m_pc' = "error"
               /\ UNCHANGED <<m_found, m_ran>>
          ELSE IF out = "skip"
          THEN /\ m_pc' = "dedup"
               /\ UNCHANGED <<m_found, m_ran>>
          ELSE /\ m_pc' = "dedup"
               /\ m_ran' = m_ran \cup {m_mode}
               /\ \E c \in ContentsOf(m_mode) :
                     m_found' = m_found \o Accepted(m_impl, m_found, c)
    /\ UNCHANGED <<m_impl, m_mode, m_tmpl, m_range>>
    /\ UNCHANGED notModesVars

\* auto, first the listing
AutoListing ==
    /\ m_pc = "start"
    /\ m_mode = "auto"
    /\ m_pc' = "listed"
    /\ IF ListingFirst(m_impl, m_tmpl)
       THEN /\ m_ran' = m_ran \cup {"archivum"}
            /\ \E c \in ListingContents :
                  m_found' = m_found \o Accepted(m_impl, m_found, c)
       ELSE UNCHANGED <<m_found, m_ran>>
    /\ UNCHANGED <<m_impl, m_mode, m_tmpl, m_range>>
    /\ UNCHANGED notModesVars

\* auto, then the month pages
AutoYm ==
    /\ m_pc = "listed"
    /\ m_pc' = "ymdone"
    /\ IF YmFallback(m_impl, m_tmpl, m_found, m_range)
       THEN /\ m_ran' = m_ran \cup {"ym"}
            /\ \E c \in YmContents :
                  m_found' = m_found \o Accepted(m_impl, m_found, c)
       ELSE UNCHANGED <<m_found, m_ran>>
    /\ UNCHANGED <<m_impl, m_mode, m_tmpl, m_range>>
    /\ UNCHANGED notModesVars

\* auto, then the day pages
AutoYmd ==
    /\ m_pc = "ymdone"
    /\ m_pc' = "dedup"
    /\ IF YmdFallback(m_impl, m_tmpl, m_found, m_range)
       THEN /\ m_ran' = m_ran \cup {"ymd"}
            /\ \E c \in YmdContents :
                  m_found' = m_found \o Accepted(m_impl, m_found, c)
       ELSE UNCHANGED <<m_found, m_ran>>
    /\ UNCHANGED <<m_impl, m_mode, m_tmpl, m_range>>
    /\ UNCHANGED notModesVars

\* the final de-duplication of the standalone crawlers; the generator of the
\* adapter is exhausted
ModeFinish ==
    /\ m_pc = "dedup"
    /\ m_pc' = "done"
    /\ m_found' = IF m_impl = "adapter" THEN m_found ELSE Dedup(m_found)
    /\ UNCHANGED <<m_impl, m_mode, m_tmpl, m_range, m_ran>>
    /\ UNCHANGED notModesVars

ModesNext == ModeSingle \/ AutoListing \/ AutoYm \/ AutoYmd \/ ModeFinish

SpecModes == ModesInit /\ [][ModesNext]_vars

\* C23: when a single strategy is selected and its template is not
\* configured, the run ends in the error exit with no page fetched.
ConfigErrorFatal ==
    (m_pc \notin {"idle", "start"} /\ m_mode \in Strategies
        /\ m_mode \notin m_tmpl) =>
        (m_pc = "error" /\ m_ran = {})

\* C24: in auto mode the listing is the first strategy to run; the month
\* pages are requested only after the listing and with fewer than
\* MinAccepted links accepted; the day pages only after the month phase, with
\* fewer than MinAccepted links accepted and a day template configured.
AutoTransitions ==
    [][m_mode = "auto" =>
          /\ "archivum" \in m_ran' \ m_ran => m_pc = "start"
          /\ "ym" \in m_ran' \ m_ran =>
                 m_pc = "listed" /\ Len(m_found) < MinAccepted
          /\ "ymd" \in m_ran' \ m_ran =>
                 /\ m_pc = "ymdone"
                 /\ Len(m_found) < MinAccepted
                 /\ "ymd" \in m_tmpl]_vars

\* C25: the result list of a run holds every URL at most once, whichever
\* strategies contributed to it.
RunWideDedup ==
    \A i, j \in DOMAIN m_found : m_found[i] = m_found[j] => i = j

----------------------------------------------------------------------------
(* The loop of crawl_archivum over page outcomes, as the three crawlers     *)
(* write it: multi_archive_crawler_index.py (444_archive_crawler.py has the *)
(* same loop), multi_archive_crawler_telexfix.py and hvg_archive_crawler.py.*)
(* A page is a failed fetch, a page with no newly accepted link, or a page  *)
(* with newly accepted links, dated or all undated.  The streak is read     *)
(* only through `>= threshold` and, without a cap, the page number is not   *)
(* read at all: both stop counting where their value no longer matters.     *)

Crawlers == {"index", "telexfix", "hvg"}

\* the --max-archivum-pages value explored
StreakPageCap == 4

Outcomes == {"fail", "none", "dated", "undated"}

\* `empty_streak >= 2` (index, 444), `empty_streak >= 3` (telexfix, hvg)
StreakThreshold(impl) == IF impl = "index" THEN 2 ELSE 3

\* empty_streak after the page
StreakAfter(streak, impl, out) ==
    IF out \in {"dated", "undated"} THEN 0
    ELSE Min(streak + 1, StreakThreshold(impl))

\* in_range_seen when the break conditions of the iteration are read:
\* telexfix sets it to False at the top of every iteration, hvg before the
\* loop and only for a dated link; index has no such flag
InRangeSeen(impl, inrange, out) ==
    IF impl = "telexfix" THEN out \in {"dated", "undated"}
    ELSE IF impl = "hvg" THEN inrange \/ out = "dated"
    ELSE TRUE

\* the break after a failed fetch
BreakOnFail(impl, inrange, streak) ==
    IF impl = "hvg" THEN inrange /\ streak >= StreakThreshold(impl)
    ELSE streak >= StreakThreshold(impl)

\* the break after a fetched page
BreakOnEmpty(impl, inrange, streak, start) ==
    IF impl = "index" THEN streak >= StreakThreshold(impl) /\ start
    ELSE inrange /\ streak >= StreakThreshold(impl) /\ start

\* `if max_pages is not None and page > max_pages: break`
CapReached(maxp, page) == maxp # NoCap /\ page > maxp

\* page += 1
NextPage(maxp, page) ==
    IF maxp = NoCap THEN Min(page + 1, StreakPageCap) ELSE page + 1

StreakInit ==
    /\ t_impl \in Crawlers
    /\ t_start \in BOOLEAN
    /\ t_maxp \in {NoCap, StreakPageCap}
    /\ t_page = 1
    /\ t_streak = 0
    /\ t_inrange = FALSE
    /\ t_seen = FALSE
    /\ t_quiet = 0
    /\ t_pc = "loop"
    /\ BatchIdle /\ RepoIdle /\ ListIdle /\ OrchIdle /\ ScenIdle /\ CanonIdle
    /\ LookupIdle /\ ModesIdle
    /\ YmIdle
    /\ YmdIdle
    /\ PoliteIdle
    /\ ExtractIdle
    /\ FetchIdle
    /\ AdListIdle
    /\ RunsIdle
    /\ StoresIdle

\* the cap check at the top of the loop
StreakCapExit ==
    /\ t_pc = "loop"
    /\ CapReached(t_maxp, t_page)
    /\ t_pc' = "done"
    /\ UNCHANGED <<t_impl, t_start, t_maxp, t_page, t_streak, t_inrange,
                   t_seen, t_quiet>>
    /\ UNCHANGED notStreakVars

\* one iteration of the loop
StreakPage ==
    /\ t_pc = "loop"
    /\ ~CapReached(t_maxp, t_page)
    /\ \E out \in Outcomes :
        LET streak == StreakAfter(t_streak, t_impl, out)
            inrange == IF out = "fail"
                       THEN (IF t_impl = "telexfix" THEN FALSE ELSE t_inrange)
                       ELSE InRangeSeen(t_impl, t_inrange, out)
            stop == IF out = "fail"
                    THEN BreakOnFail(t_impl, inrange, streak)
                    ELSE BreakOnEmpty(t_impl, inrange, streak, t_start)
        IN /\ t_streak' = streak
           /\ t_inrange' = inrange
           /\ t_seen' = (t_seen \/ out \in {"dated", "undated"})
           /\ t_quiet' = IF out = "none"
                         THEN Min(t_quiet + 1, StreakThreshold(t_impl))
                         ELSE 0
           /\ IF stop
              THEN t_pc' = "done" /\ t_page' = t_page
              ELSE t_pc' = "loop" /\ t_page' = NextPage(t_maxp, t_page)
    /\ UNCHANGED <<t_impl, t_start, t_maxp>>
    /\ UNCHANGED notStreakVars

StreakNext == StreakCapExit \/ StreakPage

SpecStreak == StreakInit /\ [][StreakNext]_vars

\* the loop runs on for as long as it has not returned
FairSpecStreak == SpecStreak /\ WF_vars(StreakNext)

\* C26: in the telexfix crawl_archivum with date_from given, once in-window
\* links have been seen and three fetched pages in a row have contributed no
\* newly accepted link, the loop has stopped.
StreakStopsListing ==
    (/\ t_impl = "telexfix" /\ t_start
     /\ t_seen /\ t_quiet >= StreakThreshold(t_impl)) => t_pc = "done"

\* C28: the listing loop reaches its end, whatever the pages bring, with or
\* without date_from and with or without a page cap.
ListingTerminates == <>(t_pc = "done")

----------------------------------------------------------------------------
(* RegexArchiveAdapter._iter_ym_urls as iter_archive drives it: called with *)
(* a range start < end_excl and reverse=True, then asked for one URL after  *)
(* the other.                                                               *)

\* largest _ym_max_pages explored
YmPagesMax == 2

\* the last day of the modelled calendar
LastDay == Len(MonthTable)

YmInit ==
    /\ y_start \in 1..LastDay
    /\ y_end \in 2..(LastDay + 1)
    /\ y_start < y_end
    /\ y_tmpl \in BOOLEAN
    /\ y_paged \in BOOLEAN
    /\ y_maxp \in 0..YmPagesMax
    /\ y_plan = <<>>
    /\ y_out = <<>>
    /\ y_pc = "call"
    /\ BatchIdle /\ RepoIdle /\ ListIdle /\ OrchIdle /\ ScenIdle /\ CanonIdle
    /\ LookupIdle /\ ModesIdle /\ StreakIdle
    /\ YmdIdle
    /\ PoliteIdle
    /\ ExtractIdle
    /\ FetchIdle
    /\ AdListIdle
    /\ RunsIdle
    /\ StoresIdle

\* the generator is created and runs up to its first yield
YmCall ==
    /\ y_pc = "call"
    /\ y_plan' = YmUrls(y_start, y_end, y_tmpl, y_paged, y_maxp)
    /\ y_pc' = "iter"
    /\ UNCHANGED <<y_start, y_end, y_tmpl, y_paged, y_maxp, y_out>>
    /\ UNCHANGED notYmVars

\* the next URL is yielded and requested
YmYield ==
    /\ y_pc = "iter"
    /\ y_plan # <<>>
    /\ y_out' = Append(y_out, Head(y_plan))
    /\ y_plan' = Tail(y_plan)
    /\ UNCHANGED <<y_start, y_end, y_tmpl, y_paged, y_maxp, y_pc>>
    /\ UNCHANGED notYmVars

\* the generator is exhausted
YmReturn ==
    /\ y_pc = "iter"
    /\ y_plan = <<>>
    /\ y_pc' = "done"
    /\ UNCHANGED <<y_start, y_end, y_tmpl, y_paged, y_maxp, y_plan, y_out>>
    /\ UNCHANGED notYmVars

YmNext == YmCall \/ YmYield \/ YmReturn

SpecYm == YmInit /\ [][YmNext]_vars

\* the calendar months with a day in [start, end_excl)
MonthsIntersecting(start, end_excl) ==
    {MonthTable[d] : d \in start..(end_excl - 1)}

----------------------------------------------------------------------------
(* RegexArchiveAdapter._iter_ymd_urls as iter_archive drives it: called     *)
(* with the range, reverse=True and max_days = int(CRAWL_MAX_DAYS), then    *)
(* asked for one URL after the other.                                       *)

\* largest _ymd_max_pages explored
YmdPagesMax == 1
\* largest CRAWL_MAX_DAYS explored
YmdDaysMax == 3

YmdInit ==
    /\ d_start \in 1..LastDay
    /\ d_end \in 1..(LastDay + 1)
    /\ d_tmpl \in BOOLEAN
    /\ d_paged \in BOOLEAN
    /\ d_maxp \in 0..YmdPagesMax
    \* int(os.getenv("CRAWL_MAX_DAYS", "14")): any int
    /\ d_maxd \in (0 - 1)..YmdDaysMax
    /\ d_plan = <<>>
    /\ d_out = <<>>
    /\ d_pc = "call"
    /\ BatchIdle /\ RepoIdle /\ ListIdle /\ OrchIdle /\ ScenIdle /\ CanonIdle
    /\ LookupIdle /\ ModesIdle /\ StreakIdle /\ YmIdle
    /\ PoliteIdle
    /\ ExtractIdle
    /\ FetchIdle
    /\ AdListIdle
    /\ RunsIdle
    /\ StoresIdle

\* the generator is created and runs up to its first yield
YmdCall ==
    /\ d_pc = "call"
    /\ d_plan' = YmdUrls(d_start, d_end, d_tmpl, d_paged, d_maxp, d_maxd)
    /\ d_pc' = "iter"
    /\ UNCHANGED <<d_start, d_end, d_tmpl, d_paged, d_maxp, d_maxd, d_out>>
    /\ UNCHANGED notYmdVars

\* the next URL is yielded and requested
YmdYield ==
    /\ d_pc = "iter"
    /\ d_plan # <<>>
    /\ d_out' = Append(d_out, Head(d_plan))
    /\ d_plan' = Tail(d_plan)
    /\ UNCHANGED <<d_start, d_end, d_tmpl, d_paged, d_maxp, d_maxd, d_pc>>
    /\ UNCHANGED notYmdVars

\* the generator is exhausted
YmdReturn ==
    /\ d_pc = "iter"
    /\ d_plan = <<>>
    /\ d_pc' = "done"
    /\ UNCHANGED <<d_start, d_end, d_tmpl, d_paged, d_maxp, d_maxd, d_plan,
                   d_out>>
    /\ UNCHANGED notYmdVars

YmdNext == YmdCall \/ YmdYield \/ YmdReturn

SpecYmd == YmdInit /\ [][YmdNext]_vars

\* the days of the URLs requested
DaysRequested == {d_out[i].key : i \in DOMAIN d_out}

\* the number of days a cutoff of max_days allows: none when it is negative
CutoffDays == IF d_maxd > 0 THEN d_maxd ELSE 0

\* C31: the day pages requested are for at most max_days distinct days,
\* those days are the max_days most recent days of [start, end_excl), most
\* recent first, and no day outside [start, end_excl) is requested.
YmdCutoff ==
    d_pc = "done" =>
        /\ Cardinality(DaysRequested) <= CutoffDays
        /\ (d_tmpl \/ (d_paged /\ d_maxp > 0)) =>
              Cardinality(DaysRequested)
                 = Min(CutoffDays, Cardinality(d_start..(d_end - 1)))
        /\ DaysRequested \subseteq d_start..(d_end - 1)
        /\ \A x \in DaysRequested :
              \A z \in d_start..(d_end - 1) : z > x => z \in DaysRequested
        /\ \A i, j \in DOMAIN d_out : i < j => d_out[i].key >= d_out[j].key

----------------------------------------------------------------------------
(* The network steps of one orchestrated window: crawl_meta drives          *)
(* iter_archive, whose every page request goes through _fetch_text; then    *)
(* fill_content calls get_or_fetch_article for every row without a body,    *)
(* which goes through read_article to Fetcher.get_text.                     *)

\* most page requests of the discovery of a window
PolitePages == 3
\* most rows without a body in a window
PoliteRows == 4

PoliteInit ==
    /\ p_pc = "crawl"
    /\ p_pages \in 0..PolitePages
    /\ p_rows \in 0..PoliteRows
    /\ p_prev = "none"
    /\ p_fetches = 0
    /\ BatchIdle /\ RepoIdle /\ ListIdle /\ OrchIdle /\ ScenIdle /\ CanonIdle
    /\ LookupIdle /\ ModesIdle /\ StreakIdle /\ YmIdle /\ YmdIdle
    /\ ExtractIdle
    /\ FetchIdle
    /\ AdListIdle
    /\ RunsIdle
    /\ StoresIdle

\* _fetch_text, first statement: time.sleep(self._sleep)
FetchTextSleep ==
    /\ p_pc = "crawl"
    /\ p_pages > 0
    /\ p_prev' = "sleep"
    /\ p_pc' = "page"
    /\ UNCHANGED <<p_pages, p_rows, p_fetches>>
    /\ UNCHANGED notPoliteVars

\* _fetch_text, second statement: self.fetcher.get_text(url)
FetchTextGet ==
    /\ p_pc = "page"
    /\ p_prev' = "fetch"
    /\ p_fetches' = p_fetches + 1
    /\ p_pages' = p_pages - 1
    /\ p_pc' = "crawl"
    /\ UNCHANGED p_rows
    /\ UNCHANGED notPoliteVars

\* iter_archive is exhausted, crawl_meta returns, fill_content selects its rows
CrawlMetaReturn ==
    /\ p_pc = "crawl"
    /\ p_pages = 0
    /\ p_pc' = "fill"
    /\ UNCHANGED <<p_pages, p_rows, p_prev, p_fetches>>
    /\ UNCHANGED notPoliteVars

\* one iteration of the fill_content loop: the row has no body, so
\* get_or_fetch_article calls read_article, which calls fetcher.get_text
FillContentRow ==
    /\ p_pc = "fill"
    /\ p_rows > 0
    /\ p_prev' = "fetch"
    /\ p_fetches' = p_fetches + 1
    /\ p_rows' = p_rows - 1
    /\ UNCHANGED <<p_pc, p_pages>>
    /\ UNCHANGED notPoliteVars

\* fill_content returns
FillContentReturn ==
    /\ p_pc = "fill"
    /\ p_rows = 0
    /\ p_pc' = "done"
    /\ UNCHANGED <<p_pages, p_rows, p_prev, p_fetches>>
    /\ UNCHANGED notPoliteVars

PoliteNext ==
    \/ FetchTextSleep
    \/ FetchTextGet
    \/ CrawlMetaReturn
    \/ FillContentRow
    \/ FillContentReturn

SpecPolite == PoliteInit /\ [][PoliteNext]_vars

\* C32: between any two consecutive network fetches of a window, page
\* fetches and article fetches alike, there is a delay step: no fetch is
\* issued when the last network step was a fetch.
PolitenessDelay == [][p_fetches' # p_fetches => p_prev # "fetch"]_vars

----------------------------------------------------------------------------
(* The link extractor on one page: RegexArchiveAdapter._extract followed by *)
(* _yield_matches, and extract_article_links of the listing crawlers        *)
(* followed by the crawl's acceptance test.  A page is the sequence of its  *)
(* article links in document order, each an absolute URL (matched by the    *)
(* absolute pattern) or an href with a relative path (matched by the        *)
(* relative pattern).  No date bounds are given, so that only the date of   *)
(* the link itself decides.                                                 *)

\* most links on a page
ExtractPageLen == 2

Extractors == {"adapter", "telexfix"}

AbsLink(u) == [form |-> "abs", raw |-> u]
\* href="<path>"
RelLink(path) == [form |-> "rel", raw |-> Url("", "", path, "")]

\* links a page may carry: two articles in several spellings and forms, and
\* links whose date groups are no calendar day
PageLinks ==
    {AbsLink(ArticleUrl(1, "a")),
     AbsLink(Url("http", "444.HU", <<"/", PathDateTable[1], "/", "a", "/">>, "")),
     AbsLink(ArticleUrl(2, "b")),
     AbsLink(Url("https", Domain, <<"/", BadPathDate, "/", "a">>, "")),
     RelLink(<<"/", PathDateTable[1], "/", "a">>),
     RelLink(<<"/", PathDateTable[2], "/", "b">>),
     RelLink(<<"/", BadPathDate, "/", "c">>)}

\* pages of at most n links
PagesUpTo(n) == UNION {[1..k -> PageLinks] : k \in 0..n}

\* the URL string a match stands for: m.group(0) of an absolute match,
\* urljoin(base_url + "/", rel) of a relative one
MatchTarget(l) == IF l.form = "rel" THEN UrlJoin(l.raw.path) ELSE l.raw

\* the matches in the order the extractor visits them: the finditer loop
\* over the absolute pattern, then the one over the relative pattern
MatchOrder(page) ==
    LET abs == SelectSeq(page, LAMBDA l : l.form = "abs")
        rel == SelectSeq(page, LAMBDA l : l.form = "rel")
        all == abs \o rel
    IN [i \in 1..Len(all) |-> MatchTarget(all[i])]

\* the (url, date) pairs the extractor returns; a missing date is NULL
ExtractPage(impl, page) ==
    IF impl = "adapter"
    THEN ExtractSeq(MatchOrder(page), {})
    ELSE LET found == ExtractLinks(MatchOrder(page), {})
         IN [i \in 1..Len(found) |->
               [url |-> found[i].url,
                pub |-> IF found[i].pubdate_guess = NoDate THEN NULL
                        ELSE IsoFormat(found[i].pubdate_guess)]]

\* the URLs accepted out of the extracted pairs
AcceptPage(impl, out, allow) ==
    IF impl = "adapter"
    THEN LET arts == YieldMatches(out, {}, NoDate, NoDate)
         IN [i \in 1..Len(arts) |-> arts[i].link]
    ELSE LET links == [i \in 1..Len(out) |->
                         FoundUrl(out[i].url, ToOrdinal(out[i].pub))]
             acc == AcceptLinks(links, {}, NoDate, NoDate, allow)
         IN [i \in 1..Len(acc) |-> acc[i].url]

ExtractInit ==
    /\ x_impl \in Extractors
    /\ x_page \in PagesUpTo(ExtractPageLen)
    \* --allow-missing-date; the adapter has no such switch
    /\ x_allow \in (IF x_impl = "adapter" THEN {FALSE} ELSE BOOLEAN)
    /\ x_out = <<>>
    /\ x_acc = <<>>
    /\ x_pc = "page"
    /\ BatchIdle /\ RepoIdle /\ ListIdle /\ OrchIdle /\ ScenIdle /\ CanonIdle
    /\ LookupIdle /\ ModesIdle /\ StreakIdle /\ YmIdle /\ YmdIdle
    /\ PoliteIdle
    /\ FetchIdle
    /\ AdListIdle
    /\ RunsIdle
    /\ StoresIdle

\* _extract(html) / extract_article_links(html, ...)
ExtractCall ==
    /\ x_pc = "page"
    /\ x_out' = ExtractPage(x_impl, x_page)
    /\ x_pc' = "extracted"
    /\ UNCHANGED <<x_impl, x_page, x_allow, x_acc>>
    /\ UNCHANGED notExtractVars

\* _yield_matches(matches, ...) / the `for fu in links` loop of the crawl
ExtractAccept ==
    /\ x_pc = "extracted"
    /\ x_acc' = AcceptPage(x_impl, x_out, x_allow)
    /\ x_pc' = "done"
    /\ UNCHANGED <<x_impl, x_page, x_allow, x_out>>
    /\ UNCHANGED notExtractVars

ExtractNext == ExtractCall \/ ExtractAccept

SpecExtract == ExtractInit /\ [][ExtractNext]_vars

\* the date groups of the link form no calendar day
BadDate(l) == ToOrdinal(PubOfMatch(MatchTarget(l))) = NoDate

\* C34: a matched link whose date groups form no calendar day is returned
\* with an absent date, and it is accepted exactly when allow-missing-date
\* is enabled.
BadDateIsAbsent ==
    x_pc = "done" =>
        \A k \in DOMAIN x_page :
            BadDate(x_page[k]) =>
                LET url == Canonicalize(MatchTarget(x_page[k]))
                IN /\ \E i \in DOMAIN x_out :
                         x_out[i].url = url /\ x_out[i].pub = NULL
                   /\ (\E i \in DOMAIN x_acc : x_acc[i] = url) <=> x_allow

\* the canonical URL of the k-th link of the page
PageUrl(k) == Canonicalize(MatchTarget(x_page[k]))

\* where on the page a canonical URL occurs first
FirstOccurrence(url) ==
    CHOOSE k \in DOMAIN x_page :
        PageUrl(k) = url /\ \A j \in 1..(k - 1) : PageUrl(j) # url

\* C35: the extracted sequence carries each canonical URL of the page once,
\* and the URLs stand in the order in which they first occur on the page,
\* whether they occur in absolute form, in relative form, or in both.
InPageDedup ==
    x_pc # "page" =>
        /\ \A i, j \in DOMAIN x_out : x_out[i].url = x_out[j].url => i = j
        /\ {x_out[i].url : i \in DOMAIN x_out}
              = {PageUrl(k) : k \in DOMAIN x_page}
        /\ \A i, j \in DOMAIN x_out :
              i < j => FirstOccurrence(x_out[i].url)
                          < FirstOccurrence(x_out[j].url)

----------------------------------------------------------------------------
(* Fetcher.get_text: _request makes up to max_retries attempts, each of     *)
(* which returns a response or raises; get_text then looks at the status    *)
(* and the content type of the response.                                    *)

\* largest max_retries explored (3 by default)
FetchRetriesMax == 3

\* no response: every attempt raised, or none was made
NoResp == [status |-> 0, ctype |-> ""]

Statuses == {200, 302, 404, 500}
\* content-type header values, lower-cased; "" when the header is missing
ContentTypes == {"text/html; charset=utf-8", "application/xml",
                 "application/rss+xml", "application/rss", "image/png", ""}
Responses == [status : Statuses, ctype : ContentTypes]

\* "html" in ctype, "xml" in ctype, "rss" in ctype
HasHtml(ct) == ct = "text/html; charset=utf-8"
HasXml(ct) == ct \in {"application/xml", "application/rss+xml"}
HasRss(ct) == ct \in {"application/rss+xml", "application/rss"}

\* lowest status get_text turns into None
ErrorStatus == 400

\* the body of get_text after _request returned r
GetText(r) ==
    IF r = NoResp THEN "None"
    ELSE IF r.status >= ErrorStatus THEN "None"
    ELSE IF ~HasHtml(r.ctype) /\ ~HasXml(r.ctype) /\ ~HasRss(r.ctype)
    THEN "None"
    ELSE "text"

FetchInit ==
    /\ f_max \in 0..FetchRetriesMax
    /\ f_attempts = 0
    /\ f_raises = 0
    /\ f_resp = NoResp
    /\ f_ret = "none"
    /\ f_pc = "request"
    /\ BatchIdle /\ RepoIdle /\ ListIdle /\ OrchIdle /\ ScenIdle /\ CanonIdle
    /\ LookupIdle /\ ModesIdle /\ StreakIdle /\ YmIdle /\ YmdIdle
    /\ PoliteIdle /\ ExtractIdle
    /\ AdListIdle
    /\ RunsIdle
    /\ StoresIdle

\* an attempt of the _request loop raises: the exception is kept, the loop
\* sleeps (unless it was the last attempt) and goes on
RequestRaises ==
    /\ f_pc = "request"
    /\ f_attempts < f_max
    /\ f_attempts' = f_attempts + 1
    /\ f_raises' = f_raises + 1
    /\ UNCHANGED <<f_max, f_resp, f_ret, f_pc>>
    /\ UNCHANGED notFetchVars

\* an attempt returns a response: _request returns it
RequestReturns ==
    /\ f_pc = "request"
    /\ f_attempts < f_max
    /\ \E r \in Responses : f_resp' = r
    /\ f_attempts' = f_attempts + 1
    /\ f_pc' = "check"
    /\ UNCHANGED <<f_max, f_raises, f_ret>>
    /\ UNCHANGED notFetchVars

\* the loop is over without a response: _request returns None and so does
\* get_text
RequestExhausted ==
    /\ f_pc = "request"
    /\ f_attempts >= f_max
    /\ f_ret' = GetText(NoResp)
    /\ f_pc' = "done"
    /\ UNCHANGED <<f_max, f_attempts, f_raises, f_resp>>
    /\ UNCHANGED notFetchVars

\* get_text looks at the response
GetTextCheck ==
    /\ f_pc = "check"
    /\ f_ret' = GetText(f_resp)
    /\ f_pc' = "done"
    /\ UNCHANGED <<f_max, f_attempts, f_raises, f_resp>>
    /\ UNCHANGED notFetchVars

FetchNext ==
    \/ RequestRaises
    \/ RequestReturns
    \/ RequestExhausted
    \/ GetTextCheck

SpecFetch == FetchInit /\ [][FetchNext]_vars

\* C36: get_text makes at most max_retries attempts, a further attempt
\* only follows an attempt that raised, and it returns None exactly when
\* all attempts raised, the status is 400 or above, or the content type is
\* neither HTML nor XML; otherwise it returns the text.
FetchContract ==
    /\ f_attempts <= f_max
    /\ f_attempts = f_raises + (IF f_resp # NoResp THEN 1 ELSE 0)
    /\ f_pc = "done" =>
          /\ f_ret \in {"None", "text"}
          /\ f_ret = "None" <=>
                \/ f_resp = NoResp
                \/ f_resp.status >= ErrorStatus
                \/ (~HasHtml(f_resp.ctype) /\ ~HasXml(f_resp.ctype))

----------------------------------------------------------------------------
(* The listing phase of RegexArchiveAdapter.iter_archive with date_from     *)
(* given: the loop over _iter_archivum_urls.  What each page brings is      *)
(* chosen as it is fetched.                                                 *)

\* largest CRAWL_MAX_PAGES explored
AdListPagesMax == 4
\* days the links of the pages are dated on
AdListDays == 3

\* what a fetch may bring: nothing, a page without links, a page with one
\* link of some day, a page whose only link has date groups that are no day
AdListPages ==
    {PageFail, PageOf(<<>>), PageOf(<<BadLink>>)}
        \cup {PageOf(<<ArticleUrl(d, "a")>>) : d \in 1..AdListDays}

ListingBreakOnFail(page, matches, start, page_i) ==
    (~page.ok \/ AllOld(matches, start)) /\ page_i > 1

\* the `break` of the listing loop: the page was fetched, none of its links
\* is dated on or after start, and it is not the first page
ListingBreak(page, matches, start, page_i) ==
    page.ok /\ AllOld(matches, start) /\ page_i > 1

AdListInit ==
    /\ a_start \in 1..AdListDays
    /\ a_maxp \in 0..AdListPagesMax
    /\ a_plan = ArchivumUrls(a_maxp)
    /\ a_log = <<>>
    /\ a_seen = {}
    /\ a_pc = "listing"
    /\ BatchIdle /\ RepoIdle /\ ListIdle /\ OrchIdle /\ ScenIdle /\ CanonIdle
    /\ LookupIdle /\ ModesIdle /\ StreakIdle /\ YmIdle /\ YmdIdle
    /\ PoliteIdle /\ ExtractIdle /\ FetchIdle
    /\ RunsIdle
    /\ StoresIdle

\* one iteration of the listing loop: the next page URL is fetched; a failed
\* fetch is passed over, a fetched page either breaks the loop or has its
\* in-range links yielded
AdListPage ==
    /\ a_pc = "listing"
    /\ a_plan # <<>>
    /\ \E page \in AdListPages :
        LET page_i == Len(a_log) + 1
            matches == Extract(page)
            stop == ListingBreak(page, matches, a_start, page_i)
            arts == IF page.ok /\ ~stop
                    THEN YieldMatches(matches, a_seen, a_start, NoDate)
                    ELSE <<>>
        IN /\ a_log' = Append(a_log,
                              [page |-> Head(a_plan).page, ok |-> page.ok,
                               old |-> AllOld(matches, a_start)])
           /\ a_seen' = a_seen \cup {arts[i].link : i \in 1..Len(arts)}
           /\ a_plan' = IF stop THEN <<>> ELSE Tail(a_plan)
           /\ a_pc' = IF stop THEN "done" ELSE "listing"
    /\ UNCHANGED <<a_start, a_maxp>>
    /\ UNCHANGED notAdListVars

\* _iter_archivum_urls is exhausted
AdListEnd ==
    /\ a_pc = "listing"
    /\ a_plan = <<>>
    /\ a_pc' = "done"
    /\ UNCHANGED <<a_start, a_maxp, a_plan, a_log, a_seen>>
    /\ UNCHANGED notAdListVars

AdListNext == AdListPage \/ AdListEnd

SpecAdList == AdListInit /\ [][AdListNext]_vars

\* the i-th fetch ends the phase: a fetched page after page 1 without a
\* link dated on or after date_from
StopsAt(i) == a_log[i].ok /\ a_log[i].old /\ i > 1

\* C37: with date_from given, the listing phase fetches pages 1, 2, ... in
\* order, at most CRAWL_MAX_PAGES of them; it fetches nothing after the
\* first fetched page after page 1 on which no link is dated on or after
\* date_from; and it ends only there or at the page cap, so a failed fetch
\* (and an all-old first page) is passed over without ending the phase.
ListingPhase ==
    /\ \A i \in DOMAIN a_log : a_log[i].page = i
    /\ Len(a_log) <= a_maxp
    /\ \A i \in DOMAIN a_log : i < Len(a_log) => ~StopsAt(i)
    /\ a_pc = "done" => (Len(a_log) = a_maxp \/ StopsAt(Len(a_log)))
    /\ (a_log # <<>> /\ StopsAt(Len(a_log))) => a_pc = "done"

\* below the cap, page 1 carried old links only, page 2 failed to fetch and
\* page 3, fetched with old links only, ended the phase
ListingPhaseWitness ==
    /\ a_pc = "done"
    /\ Len(a_log) = 3 /\ a_maxp > 3
    /\ a_log[1].ok /\ a_log[1].old
    /\ ~a_log[2].ok
    /\ StopsAt(3)

----------------------------------------------------------------------------
(* daterange_batches                                                       *)

\* largest day ordinal of the modelled calendar
MaxDay == 5
\* largest positive --batch-days value explored
MaxStep == 3

Days == 0..MaxDay
\* --batch-days is any int (argparse type=int)
StepDays == {0 - 1, 0} \cup (1..MaxStep)

\* the loop of daterange_batches appends one window per iteration; with a
\* positive step it runs at most MaxDay times, so the cap only cuts the
\* non-positive steps
MaxWindows == MaxDay + 1

NextBoundNoClamp(cur, delta, end) == cur + delta

\* nxt = min(cur + delta, end)
NextBound(cur, delta, end) == Min(cur + delta, end)

BatchInit ==
    /\ b_start \in Days
    /\ b_end \in Days
    /\ b_step \in StepDays
    /\ b_cur = b_start
    /\ b_out = <<>>
    /\ b_pc = "loop"
    /\ RepoIdle /\ ListIdle /\ OrchIdle /\ ScenIdle /\ CanonIdle /\ LookupIdle /\ ModesIdle
    /\ StreakIdle
    /\ YmIdle
    /\ YmdIdle
    /\ PoliteIdle
    /\ ExtractIdle
    /\ FetchIdle
    /\ AdListIdle
    /\ RunsIdle
    /\ StoresIdle

\* one iteration of `while cur < end`
BatchIter ==
    /\ b_pc = "loop"
    /\ b_cur < b_end
    /\ Len(b_out) < MaxWindows
    /\ LET nxt == NextBound(b_cur, b_step, b_end)
       IN /\ b_out' = Append(b_out, <<b_cur, nxt>>)
          /\ b_cur' = nxt
    /\ UNCHANGED <<b_start, b_end, b_step, b_pc>>
    /\ UNCHANGED notBatchVars

\* loop exit and `return out`
BatchReturn ==
    /\ b_pc = "loop"
    /\ ~(b_cur < b_end)
    /\ b_pc' = "done"
    /\ UNCHANGED <<b_start, b_end, b_step, b_cur, b_out>>
    /\ UNCHANGED notBatchVars

BatchNext == BatchIter \/ BatchReturn

SpecBatches == BatchInit /\ [][BatchNext]_vars

\* C10: for start < end and a positive window size the returned windows
\* start at start, end at end, are non-empty, each begins where the previous
\* one ended, and every day of [start, end) lies in exactly one window.
WindowPartition ==
    (b_pc = "done" /\ b_start < b_end /\ b_step > 0) =>
        /\ Len(b_out) >= 1
        /\ b_out[1][1] = b_start
        /\ b_out[Len(b_out)][2] = b_end
        /\ \A i \in 1..Len(b_out) : b_out[i][1] < b_out[i][2]
        /\ \A i \in 1..(Len(b_out) - 1) : b_out[i][2] = b_out[i + 1][1]
        /\ \A d \in b_start..(b_end - 1) :
              Cardinality({i \in 1..Len(b_out) :
                              b_out[i][1] <= d /\ d < b_out[i][2]}) = 1

\* a range cut into several windows, the last one shorter than the step
WindowPartitionWitness ==
    /\ b_pc = "done"
    /\ b_step > 0
    /\ Len(b_out) >= 2
    /\ b_out[Len(b_out)][2] - b_out[Len(b_out)][1] < b_step

\* C29: daterange_batches returns for every start, end and step_days, the
\* zero and negative steps and start >= end included: every iteration of
\* its loop moves cur forward, so that the loop condition cur < end fails
\* after at most end - start iterations.
BatchesTerminate ==
    [][(b_pc = "loop" /\ b_cur < b_end /\ b_out' # b_out) =>
          b_cur' > b_cur]_vars

----------------------------------------------------------------------------
(* backfill_domain_batches.main over the master store, the per-window batch *)
(* stores and the report files, for the 444.hu adapter.  One run after      *)
(* another: a run ends by leaving the loop or by the process being killed.  *)

\* date.today(), the days 365 * args.years stands for, and --batch-days
Today == 5
YearDays == 3
OrchBatchDays == 2

RECURSIVE DateRangeBatches(_, _, _)
\* daterange_batches(start, end, step_days) for a positive step
DateRangeBatches(cur, end, step) ==
    IF cur < end
    THEN <<<<cur, NextBound(cur, step, end)>>>>
             \o DateRangeBatches(NextBound(cur, step, end), end, step)
    ELSE <<>>

\* f"{df}_to_{dt}": the key of a window's batch store and report file
Tag(win) == <<IsoFormat(win[1]), IsoFormat(win[2])>>

Put(f, k, v) == [x \in (DOMAIN f) \cup {k} |-> IF x = k THEN v ELSE f[x]]

\* the articles of the site: one in the range (in three spellings of its
\* link), one before the range
UrlA == ArticleUrl(4, "a")
UrlOld == ArticleUrl(1, "o")
AltA == Url("http", "444.HU", <<"/", PathDateTable[4], "/", "a", "/">>, "")
RelA == <<"/", PathDateTable[4], "/", "a">>

\* what a page fetch of the adapter may return
OrchPages ==
    { PageFail, PageOf(<<UrlA>>), PageOf(<<UrlOld>>),
      [ok |-> TRUE, links |-> <<AltA, UrlOld>>, rel |-> <<RelA>>] }

\* what the content-fetch collaborator may hand to get_or_fetch_article
OrchFetchResults == {FetchFail, <<"T", "X">>}

\* BatchStats, with the running `total` of Pipeline.collect
NoStats ==
    [total |-> 0, crawl_upserts |-> 0, content_success |-> 0,
     content_errors |-> {}, copied_to_batch |-> 0,
     integrity_master_ok |-> FALSE, integrity_batch_ok |-> FALSE,
     success |-> FALSE]

\* BatchStats.to_dict as written to the report file: of its fields the one
\* main reads back on a later run (`prev.get("success")`)
ToDict(stats) == [success |-> stats.success]

\* what `PRAGMA integrity_check` may do: answer "ok", answer with a list of
\* faults, or raise (the file cannot be opened or read)
IntegrityResults == {"ok", "corrupt", "raise"}

\* integrity_ok
IntegrityOk(res) == res = "ok"

SuccessMasterOnly(master_ok, batch_ok) == master_ok

\* stats.success = bool(stats.integrity_master_ok and stats.integrity_batch_ok)
Success(master_ok, batch_ok) == master_ok /\ batch_ok

NoUp == [url |-> NoUrl, via |-> "none", hit |-> FALSE]

LoopBreakNever(stop) == FALSE

\* `if stop_flag["stop"]: break`, the one place the flag is read
LoopBreak(stop) == stop

ReportGateForced(exists, force) == exists

\* `if report_path.exists() and not args.force:`
ReportGate(exists, force) == exists /\ ~force

ShouldSkipNever(reports, tag, resume, force) == FALSE

\* `if report_path.exists() and not args.force: ... if args.resume and
\* prev.get("success"): continue`
ShouldSkip(reports, tag, resume, force) ==
    /\ ReportGate(tag \in DOMAIN reports, force)
    /\ resume
    /\ reports[tag].success

\* the rows of a (domain, [df, dt)) window
WindowRows(st, df, dt) ==
    {r \in st : /\ r.source = Domain
                /\ r.published_date # NULL
                /\ ToOrdinal(r.published_date) >= df
                /\ ToOrdinal(r.published_date) < dt}

RECURSIVE SortByDate(_)
\* ORDER BY a.published_date ASC
SortByDate(rows) ==
    IF rows = {} THEN <<>>
    ELSE LET r == CHOOSE r \in rows :
                     \A q \in rows :
                        ToOrdinal(r.published_date) <= ToOrdinal(q.published_date)
         IN <<r>> \o SortByDate(rows \ {r})

\* the SELECT of fill_content: the window's rows without content
FillRows(st, df, dt) ==
    SortByDate({r \in WindowRows(st, df, dt) : r.content = NULL \/ r.content = ""})

RowToArticleFreshId(row) ==
    Article(Sha256(NoUrl), IF row.title = NULL THEN "" ELSE row.title,
            row.url, row.published_date, row.url.netloc, row.content,
            IF row.matched_tags = NULL \/ row.matched_tags = ""
            THEN <<>> ELSE <<row.matched_tags>>,
            row.label)

\* Repository.row_to_article
RowToArticle(row) ==
    Article(row.id, IF row.title = NULL THEN "" ELSE row.title, row.url,
            row.published_date, row.url.netloc, row.content,
            IF row.matched_tags = NULL \/ row.matched_tags = ""
            THEN <<>> ELSE <<row.matched_tags>>,
            row.label)

OrchLocalsCleared ==
    /\ o_stats' = NoStats
    /\ o_plan' = <<>>
    /\ o_page_i' = 0
    /\ o_seen' = {}
    /\ o_queue' = <<>>
    /\ o_failed' = FALSE
    /\ o_up' = NoUp

OrchInit ==
    /\ o_pc = "exit"
    /\ o_resume = FALSE /\ o_force = FALSE /\ o_stop = FALSE
    /\ o_windows = <<>> /\ o_w = 0
    /\ o_store = {} /\ o_batch = <<>> /\ o_reports = <<>>
    /\ o_stats = NoStats
    /\ o_plan = <<>> /\ o_page_i = 0 /\ o_seen = {} /\ o_queue = <<>>
    /\ o_tick = FALSE /\ o_last = <<>> /\ o_failed = FALSE /\ o_skipped = {}
    /\ o_up = NoUp /\ o_listed = {}
    /\ BatchIdle /\ RepoIdle /\ ListIdle /\ ScenIdle /\ CanonIdle /\ LookupIdle /\ ModesIdle
    /\ StreakIdle
    /\ YmIdle
    /\ YmdIdle
    /\ PoliteIdle
    /\ ExtractIdle
    /\ FetchIdle
    /\ AdListIdle
    /\ RunsIdle
    /\ StoresIdle

\* main up to the window loop: arguments parsed, range partitioned
OrchStart ==
    /\ o_pc = "exit"
    /\ o_resume' \in BOOLEAN
    /\ o_force' \in BOOLEAN
    /\ o_stop' = FALSE
    /\ LET end == Today + 1
           start == end - YearDays
       IN o_windows' = DateRangeBatches(start, end, OrchBatchDays)
    /\ o_w' = 1
    /\ o_pc' = "top"
    /\ o_skipped' = {}
    /\ OrchLocalsCleared
    /\ o_tick' = FALSE
    /\ UNCHANGED <<o_store, o_batch, o_reports, o_last, o_listed>>
    /\ UNCHANGED notOrchVars

\* _sigint: SIGINT arrives during the run
OrchSigint ==
    /\ o_pc # "exit"
    /\ ~o_stop
    /\ o_stop' = TRUE
    /\ o_tick' = FALSE
    /\ UNCHANGED <<o_pc, o_resume, o_force, o_windows, o_w, o_store, o_batch,
                   o_reports, o_stats, o_plan, o_page_i, o_seen, o_queue, o_last, o_failed, o_skipped, o_up, o_listed>>
    /\ UNCHANGED notOrchVars

\* the process is killed: what is on disk stays, the rest is gone
OrchKill ==
    /\ o_pc # "exit"
    /\ o_pc' = "exit"
    /\ o_stop' = FALSE
    /\ o_windows' = <<>> /\ o_w' = 0
    /\ o_skipped' = {}
    /\ OrchLocalsCleared
    /\ o_tick' = FALSE
    /\ o_resume' = FALSE /\ o_force' = FALSE
    /\ UNCHANGED <<o_store, o_batch, o_reports,
                   o_last, o_listed>>
    /\ UNCHANGED notOrchVars

\* the loop ends: no window left, or `if stop_flag["stop"]: break`
OrchLoopEnd ==
    /\ o_pc = "top"
    /\ (o_w > Len(o_windows) \/ LoopBreak(o_stop))
    /\ o_pc' = "exit"
    /\ o_stop' = FALSE
    /\ o_windows' = <<>> /\ o_w' = 0
    /\ o_skipped' = {}
    /\ OrchLocalsCleared
    /\ o_tick' = FALSE
    /\ o_resume' = FALSE /\ o_force' = FALSE
    /\ UNCHANGED <<o_store, o_batch, o_reports,
                   o_last, o_listed>>
    /\ UNCHANGED notOrchVars

\* [SKIP]: `continue`
OrchSkip ==
    /\ o_pc = "top"
    /\ o_w <= Len(o_windows) /\ ~LoopBreak(o_stop)
    /\ ShouldSkip(o_reports, Tag(o_windows[o_w]), o_resume, o_force)
    /\ o_w' = o_w + 1
    /\ o_skipped' = o_skipped \cup {o_w}
    /\ o_tick' = FALSE
    /\ UNCHANGED <<o_pc, o_resume, o_force, o_stop, o_windows, o_store,
                   o_batch, o_reports, o_stats, o_plan, o_page_i, o_seen,
                   o_queue, o_last, o_failed, o_up, o_listed>>
    /\ UNCHANGED notOrchVars

\* [RUN]: BatchStats created, crawl_meta entered, iter_archive set up
OrchBegin ==
    /\ o_pc = "top"
    /\ o_w <= Len(o_windows) /\ ~LoopBreak(o_stop)
    /\ ~ShouldSkip(o_reports, Tag(o_windows[o_w]), o_resume, o_force)
    /\ o_pc' = "crawl"
    /\ o_stats' = NoStats
    /\ o_plan' = IterArchive(o_windows[o_w][1], o_windows[o_w][2])
    /\ o_page_i' = 0
    /\ o_seen' = {}
    /\ o_queue' = <<>>
    /\ o_failed' = FALSE
    /\ o_up' = NoUp
    /\ o_last' = Put(o_last, Tag(o_windows[o_w]), "running")
    /\ o_tick' = FALSE
    /\ UNCHANGED <<o_resume, o_force, o_stop, o_windows, o_w, o_store,
                   o_batch, o_reports, o_skipped, o_listed>>
    /\ UNCHANGED notOrchVars

\* one page of iter_archive: fetched, extracted, its Articles upserted by
\* Pipeline.collect
CrawlPage ==
    /\ o_pc = "crawl"
    /\ o_plan # <<>>
    /\ \E page \in OrchPages :
        LET req == Head(o_plan)
            start == o_windows[o_w][1]
            end_excl == o_windows[o_w][2]
            page_i == IF req.kind = "archivum" THEN o_page_i + 1 ELSE o_page_i
            matches == Extract(page)
            stop == /\ req.kind = "archivum"
                    /\ AllOld(matches, start)
                    /\ page_i > 1
            arts == IF page.ok /\ ~stop
                    THEN YieldMatches(matches, o_seen, start, end_excl)
                    ELSE <<>>
            urls == {arts[i].link : i \in 1..Len(arts)}
        IN /\ o_tick' = TRUE
           /\ o_page_i' = page_i
           /\ o_plan' = IF page.ok /\ stop THEN DropArchivum(Tail(o_plan))
                        ELSE Tail(o_plan)
           /\ o_store' = UpsertAll(o_store, arts)
           /\ o_seen' = o_seen \cup urls
           /\ o_stats' = [o_stats EXCEPT !.total = @ + Len(arts)]
           /\ o_up' = IF arts = <<>> THEN o_up
                      ELSE [url |-> arts[Len(arts)].link, via |-> req.kind,
                            hit |-> RowsByUrl(o_store, arts[Len(arts)].link) # {}]
           /\ o_listed' = IF req.kind = "archivum" THEN o_listed \cup urls
                          ELSE o_listed
    /\ UNCHANGED <<o_pc, o_resume, o_force, o_stop, o_windows, o_w, o_batch,
                   o_reports, o_queue, o_last, o_failed, o_skipped>>
    /\ UNCHANGED notOrchVars

\* crawl_meta raises (an upsert fails in sqlite): main prints [ERROR] and
\* goes on; stats.crawl_upserts keeps its 0
CrawlRaise ==
    /\ o_pc = "crawl"
    /\ o_plan # <<>>
    /\ o_plan' = <<>>
    /\ o_stats' = [o_stats EXCEPT !.total = 0]
    /\ o_failed' = TRUE
    /\ o_tick' = FALSE
    /\ UNCHANGED <<o_pc, o_resume, o_force, o_stop, o_windows, o_w, o_store,
                   o_batch, o_reports, o_page_i, o_seen, o_queue,
                   o_last, o_skipped, o_up, o_listed>>
    /\ UNCHANGED notOrchVars

\* crawl_meta is over; fill_content selects the window's rows without content
FillSelect ==
    /\ o_pc = "crawl"
    /\ o_plan = <<>>
    /\ o_pc' = "fill"
    /\ o_stats' = [o_stats EXCEPT !.crawl_upserts = o_stats.total]
    /\ LET rows == FillRows(o_store, o_windows[o_w][1], o_windows[o_w][2])
       IN o_queue' = [i \in 1..Len(rows) |-> rows[i].url]
    /\ o_page_i' = 0
    /\ o_up' = NoUp
    /\ o_seen' = {}
    /\ o_tick' = FALSE
    /\ UNCHANGED <<o_resume, o_force, o_stop, o_windows, o_w, o_store,
                   o_batch, o_reports, o_plan, o_last, o_failed,
                   o_skipped, o_listed>>
    /\ UNCHANGED notOrchVars

\* fill_content raises in its SELECT: main prints [ERROR] and goes on
FillRaise ==
    /\ o_pc = "crawl"
    /\ o_plan = <<>>
    /\ o_pc' = "fill"
    /\ o_stats' = [o_stats EXCEPT !.crawl_upserts = o_stats.total]
    /\ o_queue' = <<>>
    /\ o_failed' = TRUE
    /\ o_page_i' = 0
    /\ o_up' = NoUp
    /\ o_seen' = {}
    /\ o_tick' = FALSE
    /\ UNCHANGED <<o_resume, o_force, o_stop, o_windows, o_w, o_store,
                   o_batch, o_reports, o_plan, o_last, o_skipped,
                   o_listed>>
    /\ UNCHANGED notOrchVars

\* one url of fill_content: get_or_fetch_article returns
FillOne ==
    /\ o_pc = "fill"
    /\ o_queue # <<>>
    /\ \E res \in OrchFetchResults :
        LET g == GetOrFetch(o_store, Head(o_queue), res)
        IN /\ o_store' = g.store
           /\ o_tick' = g.fetched
           /\ o_stats' = IF g.raised
                         THEN [o_stats EXCEPT !.content_errors = @ \cup {Head(o_queue)}]
                         ELSE [o_stats EXCEPT !.content_success = @ + 1]
    /\ o_queue' = Tail(o_queue)
    /\ UNCHANGED <<o_pc, o_resume, o_force, o_stop, o_windows, o_w, o_batch,
                   o_reports, o_plan, o_page_i, o_seen, o_last, o_failed,
                   o_skipped, o_up, o_listed>>
    /\ UNCHANGED notOrchVars

\* one url of fill_content: get_or_fetch_article raises after its fetch
\* (the extraction or the UPDATE fails); the error is appended to errs
FillOneRaise ==
    /\ o_pc = "fill"
    /\ o_queue # <<>>
    /\ ~(\E r \in RowsByUrl(o_store, Head(o_queue)) : Truthy(r.content))
    /\ o_tick' = TRUE
    /\ o_stats' = [o_stats EXCEPT !.content_errors = @ \cup {Head(o_queue)}]
    /\ o_queue' = Tail(o_queue)
    /\ UNCHANGED <<o_pc, o_resume, o_force, o_stop, o_windows, o_w, o_store,
                   o_batch, o_reports, o_plan, o_page_i, o_seen, o_last,
                   o_failed, o_skipped, o_up, o_listed>>
    /\ UNCHANGED notOrchVars

\* fill_content is over; integrity_ok(master_db)
IntegrityMaster ==
    /\ o_pc = "fill"
    /\ o_queue = <<>>
    /\ o_pc' = "copy"
    /\ \E res \in IntegrityResults :
          o_stats' = [o_stats EXCEPT !.integrity_master_ok = IntegrityOk(res)]
    /\ o_tick' = FALSE
    /\ UNCHANGED <<o_resume, o_force, o_stop, o_windows, o_w, o_store,
                   o_batch, o_reports, o_plan, o_page_i, o_seen, o_queue,
                   o_last, o_failed, o_skipped, o_up, o_listed>>
    /\ UNCHANGED notOrchVars

\* the batch store is opened, copy_window_to_batch upserts the window's rows
\* into it (all of them, or the first n before an upsert raises),
\* integrity_ok(batch_db), success is computed
CopyWindow ==
    /\ o_pc = "copy"
    /\ o_pc' = "report"
    /\ LET tag == Tag(o_windows[o_w])
           old == IF tag \in DOMAIN o_batch THEN o_batch[tag] ELSE {}
           rows == SortByDate(WindowRows(o_store, o_windows[o_w][1],
                                         o_windows[o_w][2]))
       IN \E n \in 0..Len(rows) : \E res \in IntegrityResults :
            /\ o_batch' = Put(o_batch, tag,
                              UpsertAll(old, [i \in 1..n |-> RowToArticle(rows[i])]))
            /\ o_stats' = [o_stats EXCEPT
                             !.copied_to_batch = IF n = Len(rows) THEN n ELSE 0,
                             !.integrity_batch_ok = IntegrityOk(res),
                             !.success = Success(o_stats.integrity_master_ok,
                                                 IntegrityOk(res))]
    /\ o_tick' = FALSE
    /\ UNCHANGED <<o_resume, o_force, o_stop, o_windows, o_w, o_store,
                   o_reports, o_plan, o_page_i, o_seen, o_queue,
                   o_last, o_failed, o_skipped, o_up, o_listed>>
    /\ UNCHANGED notOrchVars

WriteReportHalting ==
    /\ o_pc = "report"
    /\ o_reports' = Put(o_reports, Tag(o_windows[o_w]), ToDict(o_stats))
    /\ o_last' = Put(o_last, Tag(o_windows[o_w]),
                     IF o_failed THEN "failed" ELSE "clean")
    /\ IF o_stats.success
       THEN /\ o_pc' = "top"
            /\ o_w' = o_w + 1
            /\ UNCHANGED <<o_resume, o_force, o_stop, o_windows, o_skipped>>
       ELSE /\ o_pc' = "exit"
            /\ o_w' = 0 /\ o_windows' = <<>> /\ o_skipped' = {}
            /\ o_stop' = FALSE /\ o_resume' = FALSE /\ o_force' = FALSE
    /\ OrchLocalsCleared
    /\ o_tick' = FALSE
    /\ UNCHANGED <<o_store, o_batch, o_listed>>
    /\ UNCHANGED notOrchVars

\* report_path.write_text(...); next window
WriteReport ==
    /\ o_pc = "report"
    /\ o_reports' = Put(o_reports, Tag(o_windows[o_w]), ToDict(o_stats))
    /\ o_last' = Put(o_last, Tag(o_windows[o_w]),
                     IF o_failed THEN "failed" ELSE "clean")
    /\ o_pc' = "top"
    /\ o_w' = o_w + 1
    /\ OrchLocalsCleared
    /\ o_tick' = FALSE
    /\ UNCHANGED <<o_resume, o_force, o_stop, o_windows, o_store, o_batch,
                   o_skipped, o_listed>>
    /\ UNCHANGED notOrchVars

Next ==
    \/ OrchStart \/ OrchSigint \/ OrchKill \/ OrchLoopEnd \/ OrchSkip
    \/ OrchBegin \/ CrawlPage \/ CrawlRaise \/ FillSelect \/ FillRaise
    \/ FillOne \/ FillOneRaise \/ IntegrityMaster \/ CopyWindow
    \/ WriteReport

Spec == OrchInit /\ [][Next]_vars

\* the steps of the main thread inside a run
MainStep ==
    \/ OrchLoopEnd \/ OrchSkip \/ OrchBegin \/ CrawlPage \/ CrawlRaise
    \/ FillSelect \/ FillRaise \/ FillOne \/ FillOneRaise
    \/ IntegrityMaster \/ CopyWindow \/ WriteReport

\* the window `t` is being processed right now
InProgress(t) ==
    /\ o_pc \in {"crawl", "fill", "copy", "report"}
    /\ Tag(o_windows[o_w]) = t

\* C1: a report with success=true exists for a window (outside an attempt on
\* it that is still running) only if the most recent attempt on that window
\* ran discovery and content-fill to completion without a step-level failure.
SuccessMeansComplete ==
    \A t \in DOMAIN o_reports :
        (o_reports[t].success /\ ~InProgress(t)) => o_last[t] = "clean"

\* C2: with a success=true report for the window at the head of the loop,
\* resume on and force off, the main thread's next step fetches no page and
\* no article, leaves the master store, the batch stores and the reports as
\* they are, and stands at the head of the loop on the next window.
ResumeSkip ==
    [][(/\ o_pc = "top" /\ ~o_stop
        /\ o_w \in 1..Len(o_windows)
        /\ Tag(o_windows[o_w]) \in DOMAIN o_reports
        /\ o_reports[Tag(o_windows[o_w])].success
        /\ o_resume /\ ~o_force
        /\ o_pc' # "exit" /\ o_stop' = o_stop)
       => (/\ o_pc' = "top"
           /\ o_w' = o_w + 1
           /\ ~o_tick'
           /\ UNCHANGED <<o_store, o_batch, o_reports>>)]_vars

\* a resume-mode run has passed over a window whose report says success
ResumeSkipWitness ==
    /\ o_pc = "top" /\ o_resume /\ ~o_force
    /\ \E w \in o_skipped :
          /\ w = o_w - 1
          /\ Tag(o_windows[w]) \in DOMAIN o_reports
          /\ o_reports[Tag(o_windows[w])].success

\* C8: when a record has its title and body populated and discovery yields
\* its URL again (the meta-only Article, upserted by Pipeline.collect), the
\* stored title, body and published date stay as they were.
RediscoveryHarmless ==
    [][\A r \in o_store :
         (/\ Populated(r.title) /\ Populated(r.content)
          /\ o_pc = "crawl" /\ o_pc' = "crawl"
          /\ r.url \in o_seen' \ o_seen)
         => \E q \in o_store' :
               /\ q.url = r.url
               /\ q.title = r.title
               /\ q.content = r.content
               /\ q.published_date = r.published_date]_vars

\* C9: every stored record's id is sha256 of its canonical URL, and no two
\* stored records have the same canonical URL, whichever strategy (listing,
\* year-month, year-month-day) and whichever run discovered them.
IdStability ==
    \A r \in o_store :
        /\ r.id = Sha256(Canonicalize(r.url))
        /\ \A q \in o_store :
              Canonicalize(q.url) = Canonicalize(r.url) => q = r

\* a month or day page has just yielded a URL that an earlier attempt had
\* taken from the listing, and the store holds one record for it
IdStabilityWitness ==
    /\ o_up.via \in {"ym", "ymd"}
    /\ o_up.hit
    /\ o_up.url \in o_listed
    /\ Cardinality({r \in o_store : Canonicalize(r.url) = o_up.url}) = 1

\* C17: at the head of the loop the main thread skips the window exactly
\* when a report for the window exists with success=true, resume is on and
\* force is off; in every other combination it starts the window.
SkipCondition ==
    [][(/\ o_pc = "top" /\ ~o_stop
        /\ o_w \in 1..Len(o_windows)
        /\ o_pc' # "exit" /\ o_stop' = o_stop)
       => IF /\ Tag(o_windows[o_w]) \in DOMAIN o_reports
             /\ o_reports[Tag(o_windows[o_w])].success
             /\ o_resume
             /\ ~o_force
          THEN /\ o_skipped' = o_skipped \cup {o_w}
               /\ o_pc' = "top" /\ o_w' = o_w + 1
          ELSE /\ o_skipped' = o_skipped
               /\ o_pc' = "crawl" /\ o_w' = o_w
               /\ o_last'[Tag(o_windows[o_w])] = "running"]_vars

\* a window with a success=true report is run again: resume and force are
\* both on
SkipConditionWitness ==
    /\ o_pc = "crawl"
    /\ o_resume /\ o_force
    /\ Tag(o_windows[o_w]) \in DOMAIN o_reports
    /\ o_reports[Tag(o_windows[o_w])].success
    /\ o_w \notin o_skipped

\* C18: the report written for a window attempt has success=true exactly
\* when integrity_ok returned True for the master store and for the
\* window's batch store; a check that cannot run returns False.
ReportSuccessFlag ==
    [][(o_pc = "report" /\ o_pc' = "top") =>
          /\ Tag(o_windows[o_w]) \in DOMAIN o_reports'
          /\ o_reports'[Tag(o_windows[o_w])].success =
                (o_stats.integrity_master_ok /\ o_stats.integrity_batch_ok)
          /\ ~IntegrityOk("raise")]_vars

\* a report with success=false is about to be written for a window whose
\* master check passed and whose batch check did not
ReportSuccessWitness ==
    /\ o_pc = "report"
    /\ o_stats.integrity_master_ok
    /\ ~o_stats.integrity_batch_ok
    /\ ~o_stats.success

\* where the window in progress stands: the stages before its report, and
\* what the stage it is in still has to go through (pages to request, URLs to
\* fill)
StagesLeft ==
    IF o_pc = "crawl" THEN 4
    ELSE IF o_pc = "fill" THEN 3
    ELSE IF o_pc = "copy" THEN 2
    ELSE IF o_pc = "report" THEN 1
    ELSE 0

StageLeft ==
    IF o_pc = "crawl" THEN Len(o_plan)
    ELSE IF o_pc = "fill" THEN Len(o_queue)
    ELSE 0

\* C19: once the stop signal has arrived, the run starts no further window
\* (from the head of the loop it only leaves); a window that is in progress
\* with the signal there is never held up, every step it takes brings it
\* closer to its report, and it reaches the head of the loop again only by
\* writing that report: no step inside a window reads the flag.
StopAtBoundary ==
    /\ [][(o_stop /\ o_pc = "top") => o_pc' = "exit"]_vars
    /\ [][(o_stop /\ o_pc \in {"crawl", "fill", "copy", "report"}
                  /\ o_pc' # "exit") =>
             /\ o_stop'
             /\ \/ StagesLeft' < StagesLeft
                \/ StagesLeft' = StagesLeft /\ StageLeft' < StageLeft
             /\ (o_pc' = "top" =>
                    /\ o_pc = "report"
                    /\ Tag(o_windows[o_w]) \in DOMAIN o_reports')]_vars
    /\ []((o_stop /\ o_pc \in {"crawl", "fill", "copy", "report"})
             => ENABLED MainStep)

\* the signal is there while the first window is in progress, the window
\* has gone on through its stages to its report, and a window is left
\* that is not going to be started
StopAtBoundaryWitness ==
    /\ o_stop
    /\ o_pc = "report"
    /\ o_w = 1
    /\ o_w < Len(o_windows)
    /\ o_stats.content_success > 0

\* C20: a step of the content fill that leaves the URL it was about without
\* a body (its fetch failed or came back unavailable) puts the URL into
\* content_errors and does not count it in content_success; the fill goes
\* on with the URLs behind it.
FillFailuresRecorded ==
    [][(/\ o_pc = "fill" /\ o_pc' = "fill"
        /\ o_queue # <<>>
        /\ o_queue' = Tail(o_queue)
        /\ ~(\E r \in RowsByUrl(o_store', Head(o_queue)) : Truthy(r.content)))
       => /\ Head(o_queue) \in o_stats'.content_errors
          /\ o_stats'.content_success = o_stats.content_success]_vars

\* a window before the current one was run in this run and its integrity
\* check failed
FailedEarlier ==
    \E i \in 1..(o_w - 1) :
        /\ i \notin o_skipped
        /\ Tag(o_windows[i]) \in DOMAIN o_reports
        /\ ~o_reports[Tag(o_windows[i])].success

----------------------------------------------------------------------------
(* The master store and one batch store under the three operations of the   *)
(* package that write articles: the upsert of a discovered link             *)
(* (_yield_matches, Pipeline.collect), fill_content on the rows without a   *)
(* body, and copy_window_to_batch.  Two articles, each in every spelling a  *)
(* page may carry.                                                          *)

\* articles that discovery may find, one per day
StoreDays == 2

StoresInit ==
    /\ v_store = {}
    /\ v_batch = {}
    /\ v_op = "init"
    /\ BatchIdle /\ RepoIdle /\ ListIdle /\ OrchIdle /\ ScenIdle /\ CanonIdle
    /\ LookupIdle /\ ModesIdle /\ StreakIdle /\ YmIdle /\ YmdIdle
    /\ PoliteIdle /\ ExtractIdle /\ FetchIdle /\ AdListIdle /\ RunsIdle

\* a page carrying one spelling of an article link: _extract canonicalizes
\* it, _yield_matches builds the Article, Pipeline.collect upserts it
StoreDiscover ==
    /\ \E d \in 1..StoreDays : \E raw \in RawSpellings(d, "a") :
          LET arts == YieldMatches(Extract(PageOf(<<raw>>)), {}, NoDate, NoDate)
          IN v_store' = UpsertAll(v_store, arts)
    /\ v_op' = "discover"
    /\ UNCHANGED v_batch
    /\ UNCHANGED notStoresVars

\* an iteration of the fill_content loop of a window: get_or_fetch_article
\* for a row without a body, whatever the fetch brings
StoreFill ==
    /\ \E df \in 1..StoreDays : \E dt \in (df + 1)..(StoreDays + 1) :
       \E res \in FetchResults :
          LET rows == FillRows(v_store, df, dt)
          IN \E i \in 1..Len(rows) :
                v_store' = GetOrFetch(v_store, rows[i].url, res).store
    /\ v_op' = "fill"
    /\ UNCHANGED v_batch
    /\ UNCHANGED notStoresVars

\* copy_window_to_batch: the rows of the window, through row_to_article and
\* the batch repository's upsert
StoreCopy ==
    /\ \E df \in 1..StoreDays : \E dt \in (df + 1)..(StoreDays + 1) :
          LET rows == SortByDate(WindowRows(v_store, df, dt))
          IN /\ rows # <<>>
             /\ v_batch' = UpsertAll(v_batch,
                              [i \in 1..Len(rows) |-> RowToArticle(rows[i])])
    /\ v_op' = "copy"
    /\ UNCHANGED v_store
    /\ UNCHANGED notStoresVars

StoresNext == StoreDiscover \/ StoreFill \/ StoreCopy

SpecStores == StoresInit /\ [][StoresNext]_vars

\* every record of the table has id = sha256(url), and no two records share
\* an id or a url
IdsSound(st) ==
    \A r \in st :
        /\ r.id = Sha256(r.url)
        /\ \A q \in st : (q.id = r.id \/ q.url = r.url) => q = r

\* C39: after any sequence of discovery upserts, content fills and window
\* copies, in the master store and in the batch store each record's id is
\* sha256 of its stored url and no two records share an id or a url.
StoredIdsSound == IdsSound(v_store) /\ IdsSound(v_batch)

\* two articles were discovered, one of them has its body filled, and a
\* window copy has just put both into the batch store
StoredIdsWitness ==
    /\ v_op = "copy"
    /\ Cardinality(v_store) = 2
    /\ Cardinality(v_batch) = 2
    /\ \E r \in v_batch : Truthy(r.content)

----------------------------------------------------------------------------
(* Runs of backfill_domain_batches.py one after the other, with the same    *)
(* --domain, --years and --batch-days, on the same day or on later days.    *)
(* What a window does between [RUN] and its report is the orchestrator      *)
(* above; here a window that is run ends with its report written, with      *)
(* success true or false.  Between runs a report file may be damaged.       *)

\* days a later run may start after the first possible day
MaxLater == 1

\* the days a run may start on: the range [today + 1 - YearDays, today + 1)
\* lies in the modelled calendar
RunDays == YearDays..(YearDays + MaxLater)

\* what a report file holds: JSON with success true or false, or something
\* that json.loads or prev.get fails on
ReportStates == {"success", "failed", "unreadable"}

SkipWindowUnread(reports, tag, resume, force) ==
    /\ ReportGate(tag \in DOMAIN reports, force)
    /\ resume
    /\ reports[tag] # "failed"

\* the resume/force logic at the head of the window loop: `continue` is
\* reached when the file exists, --force is off, the file parses, --resume
\* is on and prev.get("success") is true; an exception is passed over
SkipWindow(reports, tag, resume, force) ==
    /\ ReportGate(tag \in DOMAIN reports, force)
    /\ reports[tag] # "unreadable"
    /\ resume
    /\ reports[tag] = "success"

RunsInit ==
    /\ w_today = 0
    /\ w_resume = FALSE /\ w_force = FALSE
    /\ w_windows = <<>> /\ w_i = 0
    /\ w_reports = <<>>
    /\ w_prev = {} /\ w_bad = {}
    /\ w_skipped = {} /\ w_ran = {}
    /\ w_first = <<>>
    /\ w_pc = "exit"
    /\ BatchIdle /\ RepoIdle /\ ListIdle /\ OrchIdle /\ ScenIdle /\ CanonIdle
    /\ LookupIdle /\ ModesIdle /\ StreakIdle /\ YmIdle /\ YmdIdle
    /\ PoliteIdle /\ ExtractIdle /\ FetchIdle /\ AdListIdle
    /\ StoresIdle

\* main up to the window loop: today = date.today(), the range is
\* [today + 1 - 365 * years, today + 1), cut by daterange_batches
RunStart ==
    /\ w_pc = "exit"
    /\ \E today \in RunDays :
          /\ today >= w_today
          /\ w_today' = today
          /\ LET end == today + 1
                 start == end - YearDays
                 wins == DateRangeBatches(start, end, OrchBatchDays)
             IN /\ w_windows' = wins
                /\ w_first' = IF w_first = <<>> THEN wins ELSE w_first
    /\ w_resume' \in BOOLEAN
    /\ w_force' \in BOOLEAN
    /\ w_i' = 1
    /\ w_prev' = {t \in DOMAIN w_reports : w_reports[t] = "success"}
    /\ w_bad' = {t \in DOMAIN w_reports : w_reports[t] = "unreadable"}
    /\ w_skipped' = {}
    /\ w_ran' = {}
    /\ w_pc' = "top"
    /\ UNCHANGED w_reports
    /\ UNCHANGED notRunsVars

\* [SKIP]: `continue`
WindowSkip ==
    /\ w_pc = "top"
    /\ w_i <= Len(w_windows)
    /\ SkipWindow(w_reports, Tag(w_windows[w_i]), w_resume, w_force)
    /\ w_skipped' = w_skipped \cup {Tag(w_windows[w_i])}
    /\ w_i' = w_i + 1
    /\ UNCHANGED <<w_today, w_resume, w_force, w_windows, w_reports, w_prev,
                   w_bad, w_ran, w_first, w_pc>>
    /\ UNCHANGED notRunsVars

\* [RUN] ... report_path.write_text(...): the window is run and its report
\* written over whatever the file held
WindowRun ==
    /\ w_pc = "top"
    /\ w_i <= Len(w_windows)
    /\ ~SkipWindow(w_reports, Tag(w_windows[w_i]), w_resume, w_force)
    /\ \E res \in {"success", "failed"} :
          w_reports' = Put(w_reports, Tag(w_windows[w_i]), res)
    /\ w_ran' = w_ran \cup {Tag(w_windows[w_i])}
    /\ w_i' = w_i + 1
    /\ UNCHANGED <<w_today, w_resume, w_force, w_windows, w_prev, w_bad,
                   w_skipped, w_first, w_pc>>
    /\ UNCHANGED notRunsVars

\* the window loop is over
RunEnd ==
    /\ w_pc = "top"
    /\ w_i > Len(w_windows)
    /\ w_pc' = "exit"
    /\ UNCHANGED <<w_today, w_resume, w_force, w_windows, w_i, w_reports,
                   w_prev, w_bad, w_skipped, w_ran, w_first>>
    /\ UNCHANGED notRunsVars

\* between two runs a report file is truncated or otherwise damaged
ReportDamaged ==
    /\ w_pc = "exit"
    /\ \E t \in DOMAIN w_reports :
          /\ w_reports[t] # "unreadable"
          /\ w_reports' = Put(w_reports, t, "unreadable")
    /\ UNCHANGED <<w_today, w_resume, w_force, w_windows, w_i, w_prev, w_bad,
                   w_skipped, w_ran, w_first, w_pc>>
    /\ UNCHANGED notRunsVars

RunsNext ==
    \/ RunStart
    \/ WindowSkip
    \/ WindowRun
    \/ RunEnd
    \/ ReportDamaged

SpecRuns == RunsInit /\ [][RunsNext]_vars

\* C38: the windows, and with them the report keys, are the same in every
\* run, on whatever day it starts; so a resume-mode run (without --force)
\* that has gone through its windows has skipped every window an earlier
\* run reported successful.
ResumeAcrossDays ==
    /\ w_windows = w_first
    /\ (w_pc = "exit" /\ w_today # 0 /\ w_resume /\ ~w_force) =>
          w_prev \subseteq w_skipped

\* C40: in a resume-mode run a window whose report file exists but cannot
\* be read or parsed is not skipped: once the run is past it, the window
\* has been run and the file holds the report of that run.
UnreadableReportReruns ==
    (w_pc = "top" /\ w_resume) =>
        \A t \in w_bad :
            /\ t \notin w_skipped
            /\ (\E i \in 1..(w_i - 1) : i <= Len(w_windows)
                                           /\ Tag(w_windows[i]) = t) =>
                  /\ t \in w_ran
                  /\ w_reports[t] \in {"success", "failed"}

\* a resume-mode run without --force has run a window whose report was
\* unreadable when the run started and skipped another one
UnreadableReportWitness ==
    /\ w_resume /\ ~w_force
    /\ w_pc = "top" /\ w_i > Len(w_windows)
    /\ w_skipped # {}
    /\ \E t \in w_bad : t \in w_ran /\ w_reports[t] = "success"

====
